---- MODULE Spec2Model ----
(***************************************************************************)
(* Mantle chat response of the Bedrock chat provider                        *)
(* (src/src/provider.ts): the request, line framing, SSE classification,   *)
(* delta decoding, tool-call accumulation, the read loop, the stall timer  *)
(* and cancellation; the tool-support maps and the retry without tools on  *)
(* both backends; model discovery (fetchModels); and the native Converse   *)
(* call with its inference-profile retries (src/src/bedrockNative.ts).     *)
(*                                                                         *)
(* Text is modelled as a sequence of atoms.  An atom is a run of           *)
(* characters that the model never looks inside: "LF", "CR", "SP" are the  *)
(* single characters \n, \r and space; "DATA" is `data:`; "EVT" is         *)
(* `event:`; ":" is a colon; "DONE" is `[DONE]`; a frame name such as      *)
(* "T1" is the JSON text of that frame without its last closing brace and  *)
(* "}" is that closing brace, so a chunk boundary can fall inside the      *)
(* JSON of a frame.  Argument strings of tool calls are sequences of the   *)
(* atoms "{", "}", ",", "[", "]", "ka" (`"a":`), "kb" (`"b":`), "1", "2".  *)
(***************************************************************************)
EXTENDS Integers, Sequences, FiniteSets, TLC

\* ------------------------------------------------------------------ bounds
\* Lines one server sends in one response.
MaxLines == 3

\* A server sends its next line only while fewer atoms than this are waiting
\* to be read.
WireCap == 4

\* Lines one server sends when two responses are in flight at once.
MaxConcLines == 2

\* --------------------------------------------------------------- constants
Absent == "<absent>"

Idx == {0, 1}

Keys == {"a", "b"}

Resp == {1, 2}

\* ------------------------------------------------------------ text helpers
WS == {"SP", "CR", "LF"}

RECURSIVE trimStart(_)
trimStart(s) ==
  IF s # <<>> /\ Head(s) \in WS THEN trimStart(Tail(s)) ELSE s

RECURSIVE trimEnd(_)
trimEnd(s) ==
  IF s # <<>> /\ s[Len(s)] \in WS THEN trimEnd(SubSeq(s, 1, Len(s) - 1)) ELSE s

trim(s) == trimEnd(trimStart(s))

\* The text contains the prefix somewhere (String.includes); the atoms "DATA"
\* and "EVT" end with a colon.
includes(s, a) ==
  \E i \in 1..Len(s) : s[i] = a \/ (a = ":" /\ s[i] \in {"DATA", "EVT"})

\* trimmed.startsWith(prefix), for a prefix that is one atom
startsWith(s, a) == s # <<>> /\ Head(s) = a

\* buffer.split(/\r?\n/): every "LF", with the "CR" right before it when
\* there is one, separates two segments; the last segment is the text after
\* the last "LF" (possibly empty).
RECURSIVE split(_)
split(s) ==
  IF \A i \in 1..Len(s) : s[i] # "LF"
    THEN <<s>>
    ELSE LET i == CHOOSE j \in 1..Len(s) :
                    s[j] = "LF" /\ \A k \in 1..(j - 1) : s[k] # "LF"
             e == IF i > 1 /\ s[i - 1] = "CR" THEN i - 2 ELSE i - 1
         IN <<SubSeq(s, 1, e)>> \o split(SubSeq(s, i + 1, Len(s)))

\* The unfinished line is not kept.
popNothing(lines) == <<>>

\* lines.pop() || ""
popLast(lines) == lines[Len(lines)]

allButLast(lines) == SubSeq(lines, 1, Len(lines) - 1)

\* --------------------------------------------------------- JSON (arguments)
KeyAtoms == {"ka", "kb"}

ValAtoms == {"1", "2"}

KeyOf(a) == IF a = "ka" THEN "a" ELSE "b"

NoValue == [k \in Keys |-> Absent]

\* The members `"a":1,"b":2` between the braces of an object: key, value,
\* comma, key, value, ... with no trailing comma.
IsMembers(m) ==
  \/ m = <<>>
  \/ /\ Len(m) % 3 = 2
     /\ \A i \in 1..Len(m) :
          CASE i % 3 = 1 -> m[i] \in KeyAtoms
            [] i % 3 = 2 -> m[i] \in ValAtoms
            [] OTHER     -> m[i] = ","

\* The object the members denote; a repeated key keeps its last value.
MembersValue(m) ==
  [k \in Keys |->
     LET at == {i \in 1..Len(m) : i % 3 = 1 /\ KeyOf(m[i]) = k}
     IN IF at = {} THEN Absent
        ELSE m[(CHOOSE i \in at : \A j \in at : j <= i) + 1]]

\* JSON.parse(str) on an argument string: "object", "array", "scalar", or
\* "error" when JSON.parse throws (empty, incomplete or trailing text).
JSONparse(str) ==
  LET n == Len(str) IN
  IF n >= 2 /\ str[1] = "{" /\ str[n] = "}" /\ IsMembers(SubSeq(str, 2, n - 1))
    THEN [kind |-> "object", value |-> MembersValue(SubSeq(str, 2, n - 1))]
  ELSE IF str = <<"[", "]">> THEN [kind |-> "array", value |-> NoValue]
  ELSE IF n = 1 /\ str[1] \in ValAtoms THEN [kind |-> "scalar", value |-> NoValue]
  ELSE [kind |-> "error", value |-> NoValue]

\* Arrays pass as objects (typeof [] is "object").
tryParseJSONObjectOrArray(str) ==
  LET parsed == JSONparse(str) IN
  IF parsed.kind \in {"object", "array"} THEN [ok |-> TRUE, value |-> parsed.value]
  ELSE [ok |-> FALSE, value |-> NoValue]

tryParseJSONObject(str) ==
  LET parsed == JSONparse(str) IN
  IF parsed.kind = "object" THEN [ok |-> TRUE, value |-> parsed.value]
  ELSE [ok |-> FALSE, value |-> NoValue]

\* ------------------------------------------------------- frames (payloads)
\* A value is truthy as JavaScript tests it: present and not the empty string.
Truthy(x) == x \notin {Absent, ""}

TC(i, id, name, args) == [index |-> i, id |-> id, name |-> name, arguments |-> args]

Delta(content, reasoning, tcs) ==
  [hasDelta |-> TRUE, content |-> content, reasoning |-> reasoning, tool_calls |-> tcs]

OneChoice(content, reasoning, tcs) ==
  [hasChoices |-> TRUE, choices |-> <<Delta(content, reasoning, tcs)>>]

\* A choice without a delta: reading a field of choice.delta throws.
NoDelta ==
  [hasDelta |-> FALSE, content |-> Absent, reasoning |-> Absent, tool_calls |-> <<>>]

\* The chunks the servers of the model send, by frame name.
FrameNames ==
  {"T1", "T2", "R1", "E0", "X0", "A0", "A1", "A2", "A3", "B1", "B2", "N0",
   "Z0", "M2", "P0", "A4"}

ChunkOf(f) ==
  CASE f = "T1" -> OneChoice("Hel", Absent, <<>>)
    [] f = "T2" -> OneChoice("lo", Absent, <<>>)
    [] f = "R1" -> OneChoice(Absent, "hm", <<>>)
    [] f = "E0" -> [hasChoices |-> TRUE, choices |-> <<>>]
    [] f = "X0" -> [hasChoices |-> FALSE, choices |-> <<>>]
    [] f = "A0" -> OneChoice(Absent, Absent, <<TC(0, "c0", "f", <<"{", "}">>)>>)
    [] f = "A1" -> OneChoice(Absent, Absent, <<TC(0, "c0", "f", <<"{", "ka">>)>>)
    [] f = "A2" -> OneChoice(Absent, Absent, <<TC(0, Absent, Absent, <<"1", ",", "kb">>)>>)
    [] f = "A3" -> OneChoice(Absent, Absent, <<TC(0, Absent, Absent, <<"2", "}">>)>>)
    [] f = "B1" -> OneChoice(Absent, Absent, <<TC(1, Absent, "g", <<"{", "}">>)>>)
    [] f = "B2" -> OneChoice(Absent, Absent, <<TC(1, "c1", "h", <<"[", "]">>)>>)
    [] f = "Z0" -> OneChoice("", Absent, <<>>)
    [] f = "M2" -> [hasChoices |-> TRUE,
                    choices |-> <<Delta("Hel", Absent, <<>>), Delta("lo", Absent, <<>>)>>]
    [] f = "P0" -> [hasChoices |-> TRUE,
                    choices |-> <<Delta("Hel", Absent, <<>>), NoDelta>>]
    [] f = "A4" -> OneChoice(Absent, Absent, <<TC(0, "c9", "g", <<"1", "}">>)>>)
    [] OTHER    -> OneChoice(Absent, Absent, <<TC(0, "c2", Absent, <<"{", "}">>)>>)

\* JSON.parse(data) on the payload of a data frame: the text of a frame is its
\* name atom followed by the closing brace; anything else does not parse.
ParseChunk(data) ==
  IF Len(data) = 2 /\ data[1] \in FrameNames /\ data[2] = "}"
    THEN [ok |-> TRUE, chunk |-> ChunkOf(data[1])]
    ELSE [ok |-> FALSE, chunk |-> ChunkOf("E0")]

\* ------------------------------------------------------ decoder, one pass
\* The decoder works on a record D that holds the provider's fields
\*   bufs, keys  _toolCallBuffers: the buffer of each index and the indices
\*               that have one, in insertion order (Map iteration order)
\*   completed   _completedToolCallIndices
\*   reported    _reportedAnyPartInCurrentResponse
\* the locals of processStreamingResponse
\*   emittedAny, doneSeen
\* what reached the consumer
\*   out         the parts passed to progress.report, in order
\* the setting read by shouldEmitPlaceholders
\*   placeholders
\* and three records of what happened that are not program state
\*   gen         how many call ids generateCallId has produced
\*   nline       how many lines processLine has been called on; each part
\*               in out records the line that produced it (field frame)
\*   log         every element of delta.tool_calls the loop of processDelta
\*               has visited, with the line it came in.
NoBuf == [has |-> FALSE, id |-> Absent, name |-> Absent, args |-> <<>>]

\* { args: "" }
NewBuf == [has |-> TRUE, id |-> Absent, name |-> Absent, args |-> <<>>]

TextPart(value, n) ==
  [kind |-> "text", value |-> value, callId |-> "", name |-> "",
   input |-> NoValue, index |-> -1, frame |-> n]

ToolCallPart(callId, name, input, index, n) ==
  [kind |-> "tool", value |-> "", callId |-> callId, name |-> name,
   input |-> input, index |-> index, frame |-> n]

\* Math.random makes every generated id a fresh non-empty string; the model
\* numbers them.
GeneratedIds == <<"call_r1", "call_r2", "call_r3", "call_r4">>

generateCallId(n) == GeneratedIds[(n % Len(GeneratedIds)) + 1]

\* A part reported out of arrival order: kept sorted by tool-call index.
reportInIndexOrder(parts, part) ==
  SelectSeq(parts, LAMBDA e : e.index <= part.index) \o <<part>>
    \o SelectSeq(parts, LAMBDA e : e.index > part.index)

\* progress.report(part): the consumer receives the parts in call order.
report(parts, part) == Append(parts, part)

RemoveKey(keys, i) == SelectSeq(keys, LAMBDA k : k # i)

\* The tool call is emitted and marked completed; its buffer is not deleted.
emitAndKeepBuffer(D, index) ==
  LET buf == D.bufs[index] IN
  IF ~buf.has \/ ~Truthy(buf.name) THEN D
  ELSE LET parsed == tryParseJSONObject(buf.args) IN
       IF ~parsed.ok THEN D
       ELSE LET callId == IF Truthy(buf.id) THEN buf.id ELSE generateCallId(D.gen)
            IN [D EXCEPT
                  !.out = report(@, ToolCallPart(callId, buf.name, parsed.value,
                                                 index, D.nline)),
                  !.gen = IF Truthy(buf.id) THEN @ ELSE @ + 1,
                  !.completed = @ \cup {index}]

tryEmitBufferedToolCall(D, index) ==
  LET buf == D.bufs[index] IN
  IF ~buf.has \/ ~Truthy(buf.name) THEN D
  ELSE LET parsed == tryParseJSONObject(buf.args) IN
       IF ~parsed.ok THEN D
       ELSE LET callId == IF Truthy(buf.id) THEN buf.id ELSE generateCallId(D.gen)
            IN [D EXCEPT
                  !.out = report(@, ToolCallPart(callId, buf.name, parsed.value,
                                                 index, D.nline)),
                  !.gen = IF Truthy(buf.id) THEN @ ELSE @ + 1,
                  !.bufs[index] = NoBuf,
                  !.keys = RemoveKey(@, index),
                  !.completed = @ \cup {index}]

\* The fragment replaces what was accumulated.
replaceArgs(args, fragment) == fragment

\* buf.args += toolCall.function.arguments
appendArgs(args, fragment) == args \o fragment

\* The guard is missing.
neverCompleted(D, idx) == FALSE

\* this._completedToolCallIndices.has(idx)
alreadyCompleted(D, idx) == idx \in D.completed

Fragment(toolCall, n) ==
  [index |-> toolCall.index, id |-> toolCall.id, name |-> toolCall.name,
   arguments |-> toolCall.arguments, frame |-> n]

\* The buffer is updated and left: no attempt to emit follows the update.
applyToolCallNoEmit(D0, toolCall) ==
  LET idx == toolCall.index
      D == [D0 EXCEPT !.log = Append(@, Fragment(toolCall, D0.nline))]
  IN
  IF alreadyCompleted(D, idx) THEN D
  ELSE LET old == IF D.bufs[idx].has THEN D.bufs[idx] ELSE NewBuf IN
       [D EXCEPT !.bufs[idx] =
                   [has  |-> TRUE,
                    id   |-> IF Truthy(toolCall.id) THEN toolCall.id ELSE old.id,
                    name |-> IF Truthy(toolCall.name) THEN toolCall.name ELSE old.name,
                    args |-> appendArgs(old.args, toolCall.arguments)],
                 !.keys = IF D.bufs[idx].has THEN @ ELSE Append(@, idx)]

\* One element of delta.tool_calls (the body of the loop of processDelta).
applyToolCall(D0, toolCall) ==
  LET idx == toolCall.index
      D == [D0 EXCEPT !.log = Append(@, Fragment(toolCall, D0.nline))]
  IN
  IF alreadyCompleted(D, idx) THEN D
  ELSE LET old == IF D.bufs[idx].has THEN D.bufs[idx] ELSE NewBuf
           buf == [has  |-> TRUE,
                   id   |-> IF Truthy(toolCall.id) THEN toolCall.id ELSE old.id,
                   name |-> IF Truthy(toolCall.name) THEN toolCall.name ELSE old.name,
                   args |-> appendArgs(old.args, toolCall.arguments)]
           D1 == [D EXCEPT !.bufs[idx] = buf,
                           !.keys = IF D.bufs[idx].has THEN @ ELSE Append(@, idx)]
       IN tryEmitBufferedToolCall(D1, idx)

RECURSIVE applyToolCalls(_, _)
applyToolCalls(D, tcs) ==
  IF tcs = <<>> THEN D ELSE applyToolCalls(applyToolCall(D, Head(tcs)), Tail(tcs))

\* The test passes whenever the field is there, the empty string included.
contentNotNull(content) == content # Absent

\* if (delta.content)
hasContent(content) == Truthy(content)

\* The setting is not consulted.
alwaysEmitPlaceholders(setting) == TRUE

\* this.config.get<boolean>("emitPlaceholders", false)
shouldEmitPlaceholders(setting) == setting

\* One choice of a chunk.
applyChoice(D, delta) ==
  LET D1 == IF hasContent(delta.content)
              THEN [D EXCEPT !.out = report(@, TextPart(delta.content, D.nline)),
                             !.reported = TRUE]
            ELSE IF Truthy(delta.reasoning) /\ ~D.reported
                    /\ shouldEmitPlaceholders(D.placeholders)
              THEN [D EXCEPT !.out = report(@, TextPart("Thinking", D.nline)),
                             !.reported = TRUE]
            ELSE D
  IN applyToolCalls(D1, delta.tool_calls)

\* processDelta: the state it leaves and whether it threw (a chunk without a
\* choices array, or a choice without a delta, raises a TypeError; what was
\* done before stays done).
RECURSIVE applyChoices(_, _)
applyChoices(D, choices) ==
  IF choices = <<>> THEN [D |-> D, threw |-> FALSE]
  ELSE IF ~Head(choices).hasDelta THEN [D |-> D, threw |-> TRUE]
  ELSE applyChoices(applyChoice(D, Head(choices)), Tail(choices))

processDelta(D, chunk) ==
  IF ~chunk.hasChoices THEN [D |-> D, threw |-> TRUE]
  ELSE applyChoices(D, chunk.choices)

\* The retry of every open buffer at [DONE], in Map order.
RECURSIVE retryBuffers(_, _)
retryBuffers(D, keys) ==
  IF keys = <<>> THEN D
  ELSE retryBuffers(tryEmitBufferedToolCall(D, Head(keys)), Tail(keys))

\* The payload of a data line: trimmed.slice("data:".length).trimStart()
dataOf(trimmed) == trimStart(Tail(trimmed))

\* The failure ends the stream.
onParseErrorStop(D) == [D |-> [D EXCEPT !.doneSeen = TRUE], stop |-> TRUE]

\* The catch block around JSON.parse and processDelta: log, go on.
onParseError(D) == [D |-> D, stop |-> FALSE]

\* A line that is not a data line counts as decoded output.
processLineCountsMeta(D0, line) ==
  LET D == [D0 EXCEPT !.nline = @ + 1]
      trimmed == trim(line)
  IN
  IF trimmed = <<>> THEN [D |-> D, stop |-> FALSE]
  ELSE IF startsWith(trimmed, ":") THEN [D |-> D, stop |-> FALSE]
  ELSE IF ~startsWith(trimmed, "DATA")
    THEN [D |-> [D EXCEPT !.emittedAny = TRUE], stop |-> FALSE]
  ELSE LET data == dataOf(trimmed) IN
    IF data = <<"DONE">>
      THEN [D |-> [retryBuffers(D, D.keys) EXCEPT !.doneSeen = TRUE], stop |-> TRUE]
    ELSE IF data = <<>> THEN [D |-> D, stop |-> FALSE]
    ELSE LET parsed == ParseChunk(data) IN
      IF ~parsed.ok THEN onParseError(D)
      ELSE LET r == processDelta(D, parsed.chunk) IN
        IF r.threw THEN onParseError(r.D)
        ELSE [D |-> [r.D EXCEPT !.emittedAny = TRUE], stop |-> FALSE]

\* processLine: the state it leaves and its result (true: stop reading).
processLine(D0, line) ==
  LET D == [D0 EXCEPT !.nline = @ + 1]
      trimmed == trim(line)
  IN
  IF trimmed = <<>> THEN [D |-> D, stop |-> FALSE]
  ELSE IF startsWith(trimmed, ":") THEN [D |-> D, stop |-> FALSE]
  ELSE IF ~startsWith(trimmed, "DATA") THEN [D |-> D, stop |-> FALSE]
  ELSE LET data == dataOf(trimmed) IN
    IF data = <<"DONE">>
      THEN [D |-> [retryBuffers(D, D.keys) EXCEPT !.doneSeen = TRUE], stop |-> TRUE]
    ELSE IF data = <<>> THEN [D |-> D, stop |-> FALSE]
    ELSE LET parsed == ParseChunk(data) IN
      IF ~parsed.ok THEN onParseError(D)
      ELSE LET r == processDelta(D, parsed.chunk) IN
        IF r.threw THEN onParseError(r.D)
        ELSE [D |-> [r.D EXCEPT !.emittedAny = TRUE], stop |-> FALSE]

\* for (const line of lines) { if (await processLine(line)) break; }
RECURSIVE processLines(_, _)
processLines(D, lines) ==
  IF lines = <<>> THEN D
  ELSE LET r == processLine(D, Head(lines)) IN
       IF r.stop THEN r.D ELSE processLines(r.D, Tail(lines))

\* The residual line is dropped.
dropResidual(D, buffer) == D

\* The residual line on a clean end: if (!doneSeen && buffer.trim()) ...
flushResidual(D, buffer) ==
  IF ~D.doneSeen /\ trim(buffer) # <<>> THEN processLine(D, buffer).D ELSE D

\* ------------------------------------------------------------------- state
VARIABLES
  catalog,                    \* the lines the servers may send (fixed by Init)
  clients,                    \* the responses that are requested (fixed by Init)
  emitPlaceholders,           \* the configuration setting emitPlaceholders
  toolCallBuffers,            \* this._toolCallBuffers: index -> buffer
  bufferKeys,                 \* ... and its keys in insertion order
  completedToolCallIndices,   \* this._completedToolCallIndices
  reportedAnyPart,            \* this._reportedAnyPartInCurrentResponse
  generated,                  \* number of ids generateCallId has produced
  pc,                         \* per response: "idle", "requesting", "errorBody",
                              \*   "retrying", "retryBody", "reading", "done"
  buffer,                     \* per response: local buffer
  emittedAny,                 \* per response: local emittedAny
  doneSeen,                   \* per response: local doneSeen
  cancelled,                  \* per response: token.isCancellationRequested
  out,                        \* per response: parts given to progress.report
  outcome,                    \* per response: how the call ended
  nline,                      \* per response: lines given to processLine
  wire,                       \* per response: sent by the server, not yet read
  closed,                     \* per response: the server has closed the stream
  sent,                       \* per response: number of lines sent
  fed,                        \* per response: everything read so far
  log,                        \* per response: tool-call fragments visited
  afterCancel,                \* per response: parts reported after cancellation
  heartbeat,                  \* per response: the interval timer: "unset", "set",
                              \*   "cleared"
  firstByteReceived,          \* per response: local firstByteReceived
  failure,                    \* per response: the error a pending await rejected
                              \*   with ("none" when none did)
  sendTools,                  \* the configuration setting sendTools
  offers,                     \* whether the requests come with tools (options.tools
                              \*   not empty): the values possible (fixed by Init)
  mantleToolSupport,          \* this._mantleToolSupport: model id -> boolean
  nativeToolSupport,          \* this._nativeToolSupport: model id -> boolean
  models,                     \* this._models (<<>> when null)
  listing,                    \* what the last discovery was given: per backend, the
                              \*   tool support by name and the external metadata
  nat,                        \* the native (Converse) response: where it is, its
                              \*   locals, the requests sent, how it ended
  profileCache,               \* globalState: the cached inference profile of the
                              \*   model: "none", "fresh" or "stale"
  fired,                      \* number of times the change event was fired
  tools,                      \* per response: local tools is a non-empty list
  status,                     \* per response: status of the last answer that
                              \*   was not OK (0 when none)
  requests,                   \* per response: the chat-completions requests sent,
                              \*   each by whether it carried tools
  message,                    \* per response: the error thrown for an answer that
                              \*   was not OK (<<>> when none)
  errorText,                  \* per response: the error bodies read, each by
                              \*   whether it looks tool-related
  conversations,              \* the messages the requests may come with, each as
                              \*   the sequence of its parts (fixed by Init)
  chatMessages,               \* per response: the parts of the messages of the
                              \*   request (<<>> before the request)
  parsedModel,                \* a ParsedModelInfo of this._models: its token fields
                              \*   (fixed by Init)
  information,                \* the token limits advertised for it (NoInformation
                              \*   before toLanguageModelChatInformation has run)
  memento,                    \* globalState: the ExternalMetadataCache stored under
                              \*   the cache key (NoCache when none is)
  clock,                      \* Date.now(), in half hours
  load                        \* the call of loadExternalMetadataForModels

provider == <<toolCallBuffers, bufferKeys, completedToolCallIndices,
              reportedAnyPart, generated>>

locals == <<pc, buffer, emittedAny, doneSeen, out, outcome, nline, fed, log, afterCancel,
            heartbeat, firstByteReceived, failure>>

transport == <<wire, closed, sent>>

settings == <<sendTools, offers, conversations>>

support == <<mantleToolSupport, nativeToolSupport, fired>>

discovery == <<models, listing, parsedModel, information, memento, clock, load>>

nativePath == <<nat, profileCache>>

request == <<tools, status, requests, message, errorText, chatMessages>>

vars == <<catalog, clients, emitPlaceholders, provider, locals, cancelled, transport,
          settings, support, request, discovery, nativePath>>

\* ------------------------------------------------------------------- lines
DataLine(f) == <<"DATA", f, "}", "LF">>

DoneLine == <<"DATA", "DONE", "LF">>

\* Tool-call fragments over two indices, text, and the Terminator.
ToolFamily ==
  {DataLine(f) : f \in {"A1", "A2", "A3", "B1", "B2", "N0", "T1"}} \cup {DoneLine}

\* Framing and classification: blank, keepalive, metadata, CRLF and LF line
\* endings, a truncated payload, an unterminated last line.
WireFamily ==
  { <<"LF">>,
    <<":", "SP", "LF">>,
    <<"EVT", "CR", "LF">>,
    <<"DATA", "SP", "T1", "}", "CR", "LF">>,
    <<"DATA", "T1", "LF">>,
    <<"DATA", "T2", "}">>,
    <<"SP", "DATA", "SP", "LF">>,
    <<"DATA", "SP", "DONE", "LF">> }

\* Frames that decode but carry no part, frames of the wrong shape, keepalives.
FrameFamily ==
  { DataLine("R1"), DataLine("X0"), DataLine("T1"),
    <<"DATA", "T2", "LF">>, <<":", "LF">>, <<":", "SP", "LF", ":", "LF">>, DoneLine }

\* Placeholders switched on: reasoning, text, a complete tool call.
PlaceholderFamily == { DataLine("R1"), DataLine("T1"), DataLine("A0"), DoneLine }

\* Two responses at once: a tool call in two fragments.
ConcFamily == { DataLine("A1"), DataLine("A3") }

\* The fields of a delta: an empty text, two choices in one frame, a choice
\* without a delta after one with text, reasoning.
FieldFamily ==
  { DataLine("Z0"), DataLine("M2"), DataLine("P0"), DataLine("R1"), DoneLine }

\* A tool call whose later fragment names another id and another function.
IdFamily == { DataLine("A1"), DataLine("A4"), DataLine("A3"), DataLine("N0"), DoneLine }

\* ------------------------------------------------------------------ actions
NoBufs == [i \in Idx |-> NoBuf]

\* The decoder state of response r, and the one a response starts from.
DecoderOf(r) ==
  [bufs |-> toolCallBuffers, keys |-> bufferKeys,
   completed |-> completedToolCallIndices, reported |-> reportedAnyPart,
   gen |-> generated, placeholders |-> emitPlaceholders,
   emittedAny |-> emittedAny[r], doneSeen |-> doneSeen[r],
   out |-> out[r], nline |-> nline[r], log |-> log[r]]

FreshDecoder(ph) ==
  [bufs |-> NoBufs, keys |-> <<>>, completed |-> {}, reported |-> FALSE,
   gen |-> 0, placeholders |-> ph, emittedAny |-> FALSE, doneSeen |-> FALSE,
   out |-> <<>>, nline |-> 0, log |-> <<>>]

\* The token is not consulted.
exitOutcomeNoToken(D, isCancelled) ==
  IF ~D.emittedAny THEN "empty_error" ELSE "returned"

\* After the loop and the finally block: throw the empty-response error or
\* return.
exitOutcome(D, isCancelled) ==
  IF ~D.emittedAny /\ ~isCancelled THEN "empty_error" ELSE "returned"

\* The timer is left running.
leaveInterval(h) == h

\* The finally block: if (heartbeat) clearInterval(heartbeat)
clearInterval(h) == IF h = "set" THEN "cleared" ELSE h

\* Every error is swallowed.
catchAll(error) == "aborted"

\* The catch block of provideLanguageModelChatResponse: an AbortError ends
\* the call silently, any other error is thrown on to the caller.
catchError(error) ==
  CASE error = "AbortError" -> "aborted"
    [] error = "ApiError"   -> "http_error"
    [] OTHER                -> "transport_error"

\* The error a pending fetch, body read or stream read rejects with: the
\* AbortError of the abort controller once the token is cancelled, a network
\* failure otherwise.
RejectionOf(isCancelled) == IF isCancelled THEN "AbortError" ELSE "TypeError"

\* The stall test of the timer callback passes although a frame was decoded.
heartbeatStalledAnyway(D, isCancelled, firstByte, dataMsOver) ==
  ~(isCancelled \/ D.doneSeen) /\ firstByte /\ dataMsOver

\* The timer callback reaches the stall warning: not cancelled, no [DONE],
\* bytes received, nothing decoded, and no data line for the threshold.
heartbeatStalled(D, isCancelled, firstByte, dataMsOver) ==
  ~(isCancelled \/ D.doneSeen) /\ firstByte /\ ~D.emittedAny /\ dataMsOver

\* ... and then reports the waiting placeholder when placeholders are on.
heartbeatReport(D) ==
  IF shouldEmitPlaceholders(D.placeholders)
    THEN [D EXCEPT !.out = report(@, TextPart("Waiting", D.nline)),
                   !.emittedAny = TRUE]
    ELSE D

\* Write the decoder state D back for response r; ended: the loop is left.
Store(r, D, buf, ended) ==
  /\ toolCallBuffers' = D.bufs
  /\ bufferKeys' = D.keys
  /\ completedToolCallIndices' = D.completed
  /\ reportedAnyPart' = D.reported
  /\ generated' = D.gen
  /\ emittedAny' = [emittedAny EXCEPT ![r] = D.emittedAny]
  /\ doneSeen' = [doneSeen EXCEPT ![r] = D.doneSeen]
  /\ out' = [out EXCEPT ![r] = D.out]
  /\ nline' = [nline EXCEPT ![r] = D.nline]
  /\ log' = [log EXCEPT ![r] = D.log]
  /\ buffer' = [buffer EXCEPT ![r] = buf]
  /\ afterCancel' = [afterCancel EXCEPT ![r] =
                       IF cancelled[r] THEN @ + (Len(D.out) - Len(out[r])) ELSE @]
  /\ pc' = [pc EXCEPT ![r] = IF ended THEN "done" ELSE "reading"]
  /\ outcome' = [outcome EXCEPT ![r] =
                   IF ended THEN exitOutcome(D, cancelled[r]) ELSE @]
  /\ heartbeat' = [heartbeat EXCEPT ![r] = IF ended THEN clearInterval(@) ELSE @]

\* The model the requests are for.
ModelId == "m"

\* A Map of model ids to booleans: has/get and set.
NoSupport == <<>>

Recorded(map, id, value) == id \in DOMAIN map /\ map[id] = value

MapSet(map, id, value) ==
  [k \in DOMAIN map \cup {id} |-> IF k = id THEN value ELSE map[k]]

\* shouldSendTools(): the setting (default true).
shouldSendTools(setting) == setting

\* The statuses of an answer that is not OK.
Statuses == {400, 401, 404, 429}

\* The error thrown for a first answer that is not OK and is not retried.
statusError(st) ==
  CASE st = 401 -> <<"Invalid API key">>
    [] st = 404 -> <<"Model not available in region">>
    [] st = 429 -> <<"Rate limit exceeded">>
    [] OTHER    -> <<"API error", st>>

\* The error thrown when the retry is not OK either.
retryError(st) == <<"API error", st>>

\* Every first answer that is not OK is retried.
alwaysRetry(hasTools, looksToolRelated) == TRUE

\* if (tools && tools.length > 0 && looksToolRelated)
shouldRetry(hasTools, looksToolRelated) == hasTools /\ looksToolRelated

\* The change event is fired whatever was recorded.
recordAndFire(sup, value) ==
  [map |-> MapSet(sup.map, ModelId, value), fired |-> sup.fired + 1]

\* prev !== value: set the value and fire the change event (the rejection
\* sets the value in any case, which is the same map).
record(sup, value) ==
  IF Recorded(sup.map, ModelId, value) THEN sup
  ELSE [map |-> MapSet(sup.map, ModelId, value), fired |-> sup.fired + 1]

\* If we successfully sent tools, cache toolCalling=true: the test is on the
\* local tools, whichever request was answered OK.
recordSuccess(sup, hasTools) == IF hasTools THEN record(sup, TRUE) ELSE sup

\* The stream state is left as the previous response left it.
keepStreamState(S) == S

\* Clear tool call buffers: both collections are cleared and the flag reset.
clearStreamState(S) ==
  [bufs |-> NoBufs, keys |-> <<>>, completed |-> {}, reported |-> FALSE]

\* The parts of the messages of a request: text, a tool call, a tool result.
CallIds == {"c1", "c2"}

TextOf == [kind |-> "text", callId |-> ""]

CallOf(id) == [kind |-> "call", callId |-> id]

ResultOf(id) == [kind |-> "result", callId |-> id]

MessageParts == {TextOf} \cup {CallOf(id) : id \in CallIds} \cup {ResultOf(id) : id \in CallIds}

\* pendingToolCalls, a Set of call ids, in insertion order.
addPending(pending, id) ==
  IF \E k \in DOMAIN pending : pending[k] = id THEN pending ELSE Append(pending, id)

\* The answered call id stays in the set.
keepPending(pending, id) == pending

\* pendingToolCalls.delete(part.callId)
deletePending(pending, id) == SelectSeq(pending, LAMBDA c : c # id)

\* The two loops of validateRequest over the parts in order, from the set of
\* pending call ids reached so far.
RECURSIVE scanParts(_, _)
scanParts(parts, pending) ==
  IF parts = <<>>
    THEN IF pending # <<>>
           THEN [valid |-> FALSE, error |-> <<"Missing tool results for calls">> \o pending]
           ELSE [valid |-> TRUE, error |-> <<>>]
  ELSE LET part == Head(parts) IN
    CASE part.kind = "call" ->
           scanParts(Tail(parts), addPending(pending, part.callId))
      [] part.kind = "result" ->
           IF ~(\E k \in DOMAIN pending : pending[k] = part.callId)
             THEN [valid |-> FALSE,
                   error |-> <<"Tool result for unknown call ID", part.callId>>]
             ELSE scanParts(Tail(parts), deletePending(pending, part.callId))
      [] OTHER -> scanParts(Tail(parts), pending)

validateRequest(parts) == scanParts(parts, <<>>)

\* convertMessages(messages).length === 0: every text, tool-call or
\* tool-result part gives a message.
noValidMessages(parts) == parts = <<>>

\* provideLanguageModelChatResponse up to the fetch (given an API key): the
\* request is validated and its messages converted, and either test may throw
\* to the caller; then the tools are converted (when the setting allows
\* sending them), the shared buffers are cleared and the request is sent.
Begin(r) ==
  /\ r \in clients
  /\ pc[r] = "idle"
  /\ \E parts \in conversations :
       LET validation == validateRequest(parts) IN
       /\ chatMessages' = [chatMessages EXCEPT ![r] = parts]
       /\ IF ~validation.valid \/ noValidMessages(parts)
            THEN /\ pc' = [pc EXCEPT ![r] = "done"]
                 /\ outcome' = [outcome EXCEPT ![r] = "request_error"]
                 /\ message' = [message EXCEPT ![r] =
                                  IF ~validation.valid
                                    THEN <<"Invalid request">> \o validation.error
                                    ELSE <<"No valid messages to send">>]
                 /\ UNCHANGED <<provider, tools, requests>>
            ELSE /\ LET S == clearStreamState([bufs |-> toolCallBuffers, keys |-> bufferKeys,
                                               completed |-> completedToolCallIndices,
                                               reported |-> reportedAnyPart])
                    IN /\ toolCallBuffers' = S.bufs
                       /\ bufferKeys' = S.keys
                       /\ completedToolCallIndices' = S.completed
                       /\ reportedAnyPart' = S.reported
                 /\ pc' = [pc EXCEPT ![r] = "requesting"]
                 /\ \E offered \in offers :
                      LET hasTools == shouldSendTools(sendTools) /\ offered IN
                      /\ tools' = [tools EXCEPT ![r] = hasTools]
                      /\ requests' = [requests EXCEPT ![r] = <<hasTools>>]
                 /\ UNCHANGED <<generated, outcome, message>>
  /\ UNCHANGED <<catalog, clients, emitPlaceholders, settings, support, status,
                 errorText, discovery, nativePath, buffer, emittedAny,
                 doneSeen, out, nline, fed, log, afterCancel, heartbeat,
                 firstByteReceived, failure, cancelled, transport>>

\* The fetch (of the request, or of the retry) resolves with an OK
\* event-stream response: tool support is recorded when tools is not empty,
\* processStreamingResponse sets up its locals, starts the timer and enters
\* the read loop.  A fetch that is aborted rejects, so this needs the token
\* not cancelled.
Respond(r) ==
  /\ pc[r] \in {"requesting", "retrying"}
  /\ ~cancelled[r]
  /\ LET sup == recordSuccess([map |-> mantleToolSupport, fired |-> fired], tools[r]) IN
     /\ mantleToolSupport' = sup.map
     /\ fired' = sup.fired
  /\ UNCHANGED nativeToolSupport
  /\ pc' = [pc EXCEPT ![r] = "reading"]
  /\ heartbeat' = [heartbeat EXCEPT ![r] = "set"]
  /\ UNCHANGED <<catalog, clients, emitPlaceholders, settings, request, discovery, nativePath,
                 provider, buffer, emittedAny,
                 doneSeen, out, outcome, nline, fed, log, afterCancel,
                 firstByteReceived, failure, cancelled, transport>>

\* The fetch (of the request, or of the retry) resolves with a response that
\* is not OK: the error body is read.
HttpError(r) ==
  /\ pc[r] \in {"requesting", "retrying"}
  /\ ~cancelled[r]
  /\ pc' = [pc EXCEPT ![r] = IF @ = "requesting" THEN "errorBody" ELSE "retryBody"]
  /\ \E st \in Statuses : status' = [status EXCEPT ![r] = st]
  /\ UNCHANGED <<catalog, clients, emitPlaceholders, settings, support, tools, requests,
                 message, errorText, chatMessages, discovery, nativePath, provider, buffer, emittedAny,
                 doneSeen, out, outcome, nline, fed, log, afterCancel, heartbeat,
                 firstByteReceived, failure, cancelled, transport>>

\* response.text() resolves with the error body.  Of the first answer: when
\* tools were sent and the body looks tool-related, the rejection is recorded
\* and the request is sent again without tools; otherwise the error of the
\* status is thrown.  Of the retry: the API error is thrown.
ErrorBody(r) ==
  /\ pc[r] \in {"errorBody", "retryBody"}
  /\ ~cancelled[r]
  /\ \E looksToolRelated \in BOOLEAN :
       /\ errorText' = [errorText EXCEPT ![r] = Append(@, looksToolRelated)]
       /\ IF pc[r] = "errorBody" /\ shouldRetry(tools[r], looksToolRelated)
         THEN LET sup == record([map |-> mantleToolSupport, fired |-> fired], FALSE) IN
              /\ mantleToolSupport' = sup.map
              /\ fired' = sup.fired
              /\ requests' = [requests EXCEPT ![r] = Append(@, FALSE)]
              /\ pc' = [pc EXCEPT ![r] = "retrying"]
              /\ UNCHANGED <<outcome, message, nativeToolSupport>>
         ELSE /\ pc' = [pc EXCEPT ![r] = "done"]
              /\ outcome' = [outcome EXCEPT ![r] = catchError("ApiError")]
              /\ message' = [message EXCEPT ![r] =
                               IF pc[r] = "errorBody" THEN statusError(status[r])
                               ELSE retryError(status[r])]
              /\ UNCHANGED <<support, requests>>
  /\ UNCHANGED <<catalog, clients, emitPlaceholders, settings, tools, status, chatMessages,
                 discovery, nativePath,
                 provider, buffer, emittedAny,
                 doneSeen, out, nline, fed, log, afterCancel, heartbeat,
                 firstByteReceived, failure, cancelled, transport>>

\* The fetch, or the read of an error body, rejects.
FetchFail(r) ==
  /\ pc[r] \in {"requesting", "errorBody", "retrying", "retryBody"}
  /\ pc' = [pc EXCEPT ![r] = "done"]
  /\ failure' = [failure EXCEPT ![r] = RejectionOf(cancelled[r])]
  /\ outcome' = [outcome EXCEPT ![r] = catchError(RejectionOf(cancelled[r]))]
  /\ UNCHANGED <<catalog, clients, emitPlaceholders, settings, support, request, discovery, nativePath, provider, buffer, emittedAny,
                 doneSeen, out, nline, fed, log, afterCancel, heartbeat,
                 firstByteReceived, cancelled, transport>>

\* The server writes one more line to the stream.
ServerSend(r) ==
  /\ pc[r] = "reading"
  /\ ~closed[r]
  /\ sent[r] < (IF clients = Resp THEN MaxConcLines ELSE MaxLines)
  /\ Len(wire[r]) < WireCap
  /\ \E l \in catalog : wire' = [wire EXCEPT ![r] = @ \o l]
  /\ sent' = [sent EXCEPT ![r] = @ + 1]
  /\ UNCHANGED <<catalog, clients, emitPlaceholders, settings, support, request, discovery, nativePath, provider, locals, cancelled, closed>>

\* The server closes the stream.  The reader sees the end only after the last
\* byte, so the model lets the server close once the wire is drained.
ServerClose(r) ==
  /\ pc[r] = "reading"
  /\ ~closed[r]
  /\ wire[r] = <<>>
  /\ closed' = [closed EXCEPT ![r] = TRUE]
  /\ UNCHANGED <<catalog, clients, emitPlaceholders, settings, support, request, discovery, nativePath, provider, locals, cancelled, wire, sent>>

\* The cancellation token of response r is cancelled while the fetch, the
\* read of the error body or a read of the stream is pending.
Cancel(r) ==
  /\ pc[r] \in {"requesting", "errorBody", "retrying", "retryBody", "reading"}
  /\ ~cancelled[r]
  /\ cancelled' = [cancelled EXCEPT ![r] = TRUE]
  /\ UNCHANGED <<catalog, clients, emitPlaceholders, settings, support, request, discovery, nativePath, provider, locals, transport>>

\* reader.read() resolves with a chunk (any non-empty prefix of what is on
\* the wire): the body of the while loop, then the loop condition, and when
\* the loop is left the residual line, the finally block and the final test.
\* A stream that is left is never read again: what is still on the wire is
\* dropped (reader.cancel() after [DONE], releaseLock() otherwise).
ReadChunk(r) ==
  /\ pc[r] = "reading"
  /\ \E k \in 1..Len(wire[r]) :
       LET chunk == SubSeq(wire[r], 1, k)
           lines == split(buffer[r] \o chunk)
           buf   == popLast(lines)
           D1    == processLines(DecoderOf(r), allButLast(lines))
           ended == cancelled[r] \/ D1.doneSeen
           D2    == IF ended THEN flushResidual(D1, buf) ELSE D1
       IN /\ Store(r, D2, buf, ended)
          /\ wire' = [wire EXCEPT ![r] = IF ended THEN <<>> ELSE SubSeq(@, k + 1, Len(@))]
          /\ fed' = [fed EXCEPT ![r] = @ \o chunk]
  /\ firstByteReceived' = [firstByteReceived EXCEPT ![r] = TRUE]
  /\ UNCHANGED <<catalog, clients, emitPlaceholders, settings, support, request, discovery, nativePath, cancelled, closed, sent,
                 failure>>

\* reader.read() resolves with done: break, the residual line, the finally
\* block and the final test.
ReadDone(r) ==
  /\ pc[r] = "reading"
  /\ wire[r] = <<>>
  /\ closed[r]
  /\ Store(r, flushResidual(DecoderOf(r), buffer[r]), buffer[r], TRUE)
  /\ UNCHANGED <<catalog, clients, emitPlaceholders, settings, support, request, discovery, nativePath, cancelled, transport, fed,
                 firstByteReceived, failure>>

\* reader.read() rejects: with an AbortError once the request is aborted,
\* with a transport error otherwise.  The finally block runs, the final test
\* does not; the caller swallows the AbortError and rethrows anything else.
ReadFail(r) ==
  /\ pc[r] = "reading"
  /\ pc' = [pc EXCEPT ![r] = "done"]
  /\ failure' = [failure EXCEPT ![r] = RejectionOf(cancelled[r])]
  /\ outcome' = [outcome EXCEPT ![r] = catchError(RejectionOf(cancelled[r]))]
  /\ heartbeat' = [heartbeat EXCEPT ![r] = clearInterval(@)]
  /\ wire' = [wire EXCEPT ![r] = <<>>]
  /\ UNCHANGED <<catalog, clients, emitPlaceholders, settings, support, request, discovery, nativePath, provider, buffer, emittedAny,
                 doneSeen, out, nline, fed, log, afterCancel, firstByteReceived,
                 cancelled, closed, sent>>

\* The timer callback runs (every 5000 ms while the timer is set).  Whether
\* 15000 ms have passed since the last data line is the clock's to say.
Tick(r) ==
  /\ heartbeat[r] = "set"
  /\ \E dataMsOver \in BOOLEAN :
       LET D == DecoderOf(r)
           stalled == heartbeatStalled(D, cancelled[r], firstByteReceived[r], dataMsOver)
           D1 == IF stalled THEN heartbeatReport(D) ELSE D
       IN /\ out' = [out EXCEPT ![r] = D1.out]
          /\ emittedAny' = [emittedAny EXCEPT ![r] = D1.emittedAny]
  /\ UNCHANGED <<catalog, clients, emitPlaceholders, settings, support, request, discovery, nativePath, provider, pc, buffer, doneSeen,
                 outcome, nline, fed, log, afterCancel, heartbeat, firstByteReceived,
                 failure, cancelled, transport>>

\* ------------------------------------------------------------- native path
MaxNativeResponses == 2

\* No error; an error a Converse request or the profile lookup rejects with:
\* the converseOnce call and the request it came from (0: the lookup), whether
\* looksLikeInferenceProfileRequiredError holds of it, and whether its message
\* looks tool-related to the provider.
NoError == [call |-> 0, n |-> 0, profile |-> FALSE, tool |-> FALSE]

Errors(call, n) == [call : {call}, n : {n}, profile : BOOLEAN, tool : BOOLEAN]

\* The native response before the first call of provideLanguageModelChatResponse.
NoNative ==
  [at |-> "idle", call |-> 0, toolsToSend |-> FALSE, sent |-> <<>>,
   err |-> NoError, retryErr |-> NoError, source |-> "none",
   parts |-> <<>>, outcome |-> "none", caught |-> NoError, thrown |-> NoError,
   count |-> 0]

\* sendConverse(id) within converseOnce call N.call: the toolConfig is that
\* of the call.
sendConverse(N, hasTools, id) ==
  [N EXCEPT !.sent = Append(@, [call |-> N.call, tools |-> hasTools, id |-> id])]

\* The tools of converseOnce call N.call: toolsToSend, undefined in the retry.
toolsOfCall(N) == N.call = 1 /\ N.toolsToSend

\* A converseOnce call starts: sendConverse(options.modelId).
startConverseOnce(N, call) ==
  LET N1 == [N EXCEPT !.call = call, !.at = "first", !.err = NoError,
                      !.retryErr = NoError, !.source = "none"]
  IN sendConverse(N1, toolsOfCall(N1), "modelId")

\* Every error is retried.
nativeAlwaysRetry(hasTools, looksToolRelated) == TRUE

\* /tool|toolconfig|tool\s*use/i.test(message), and tools were sent
nativeShouldRetry(hasTools, looksToolRelated) == hasTools /\ looksToolRelated

\* converseOnce throws e to provideLanguageModelChatResponse.  In the catch
\* block of the first call: a tool-related error when tools were sent records
\* the rejection and calls converseOnce again without tools; any other error
\* is thrown on.  An error of the second call leaves the catch block.
\* S is the native state with the map and the event count.
throwToProvider(S, e) ==
  IF S.nat.call = 1 /\ nativeShouldRetry(S.nat.toolsToSend, e.tool)
    THEN LET sup == record([map |-> S.map, fired |-> S.fired], FALSE) IN
         [S EXCEPT !.nat = startConverseOnce([@ EXCEPT !.caught = e], 2),
                   !.map = sup.map, !.fired = sup.fired]
    ELSE [S EXCEPT !.nat = [@ EXCEPT !.at = "done", !.outcome = "thrown", !.thrown = e]]

\* The native state: the locals, the map of probed support and the events.
NativeState == [nat |-> nat, map |-> nativeToolSupport, fired |-> fired]

SetNative(S) ==
  /\ nat' = S.nat
  /\ nativeToolSupport' = S.map
  /\ fired' = S.fired

\* Everything but the native path.
notNative ==
  <<catalog, clients, emitPlaceholders, provider, locals, cancelled, transport,
    settings, mantleToolSupport, request, discovery>>

\* provideLanguageModelChatResponse for a native model, up to the first
\* Converse request of the first converseOnce call.
NativeBegin ==
  /\ nat.at \in {"idle", "done"}
  /\ nat.count < MaxNativeResponses
  /\ \E offered \in offers :
       LET N == [NoNative EXCEPT !.toolsToSend = shouldSendTools(sendTools) /\ offered,
                                 !.count = nat.count + 1]
       IN nat' = startConverseOnce(N, 1)
  /\ UNCHANGED <<notNative, nativeToolSupport, fired, profileCache>>

\* The pending Converse request resolves: converseOnce returns the text and
\* the tool uses, which are reported; after the first call tool support is
\* recorded when tools were sent.
ConverseOk ==
  /\ nat.at \in {"first", "second", "third"}
  /\ \E text \in BOOLEAN, toolUses \in 0..1 :
       LET parts == (IF text THEN <<"text">> ELSE <<>>)
                      \o [i \in 1..toolUses |-> "toolUse"]
           sup == IF nat.call = 1
                    THEN recordSuccess([map |-> nativeToolSupport, fired |-> fired],
                                       nat.toolsToSend)
                    ELSE [map |-> nativeToolSupport, fired |-> fired]
       IN /\ nat' = [nat EXCEPT !.at = "done", !.outcome = "returned", !.parts = parts]
          /\ nativeToolSupport' = sup.map
          /\ fired' = sup.fired
  /\ UNCHANGED <<notNative, profileCache>>

\* The pending Converse request rejects.  The first: unless the error says an
\* inference profile is required it is thrown, otherwise the profile is
\* resolved.  The second: when its identifier came from the cache the
\* mapping is refreshed, otherwise the error is thrown.  The third: thrown.
ConverseFail ==
  /\ nat.at \in {"first", "second", "third"}
  /\ \E e \in Errors(nat.call, Len(SelectSeq(nat.sent, LAMBDA q : q.call = nat.call))) :
       CASE nat.at = "first" /\ e.profile ->
              /\ nat' = [nat EXCEPT !.at = "resolving", !.err = e]
              /\ UNCHANGED <<nativeToolSupport, fired>>
         [] nat.at = "second" /\ nat.source = "cache" ->
              /\ nat' = [nat EXCEPT !.at = "refreshing", !.retryErr = e]
              /\ UNCHANGED <<nativeToolSupport, fired>>
         [] OTHER -> SetNative(throwToProvider(NativeState, e))
  /\ UNCHANGED <<notNative, profileCache>>

\* resolveInferenceProfileIdentifierForModel finds a cached identifier that
\* is not older than seven days (not when the refresh is forced): the second
\* Converse request is sent with it.
ResolveFromCache ==
  /\ nat.at = "resolving"
  /\ profileCache = "fresh"
  /\ nat' = sendConverse([nat EXCEPT !.at = "second", !.source = "cache"],
                          toolsOfCall(nat), "cached")
  /\ UNCHANGED <<notNative, nativeToolSupport, fired, profileCache>>

\* resolveInferenceProfileIdentifierForModel lists the inference profiles:
\* a profile is found (it is cached and the next Converse request is sent
\* with it), none is found (the error at hand is thrown), or the listing
\* rejects (its error is thrown).
ResolveByLookup ==
  /\ \/ nat.at = "resolving" /\ profileCache # "fresh"
     \/ nat.at = "refreshing"
  /\ \E result \in {"found", "none", "rejected"} :
       CASE result = "found" ->
              /\ nat' = IF nat.at = "resolving"
                          THEN sendConverse([nat EXCEPT !.at = "second", !.source = "lookup"],
                                            toolsOfCall(nat), "lookup")
                          ELSE sendConverse([nat EXCEPT !.at = "third"],
                                            toolsOfCall(nat), "refreshed")
              /\ profileCache' = "fresh"
              /\ UNCHANGED <<nativeToolSupport, fired>>
         [] result = "none" ->
              /\ SetNative(throwToProvider(NativeState,
                              IF nat.at = "resolving" THEN nat.err ELSE nat.retryErr))
              /\ UNCHANGED profileCache
         [] OTHER ->
              /\ \E e \in Errors(nat.call, 0) : SetNative(throwToProvider(NativeState, e))
              /\ UNCHANGED profileCache
  /\ UNCHANGED notNative

\* ---------------------------------------------------------- model discovery
Backends == {"mantle", "bedrock"}

\* The external metadata of a model: none, or the fields that are true.
ToolFlags == {"supports_function_calling", "supports_tool_choice"}

NoMeta == [present |-> FALSE, on |-> {}]

Metas == {NoMeta} \cup {[present |-> TRUE, on |-> S] : S \in SUBSET ToolFlags}

\* Tool support as the listing has it: parseModelInfo goes by the name of a
\* Mantle model, listNativeBedrockModels says true.
listedToolCalling(backend, byName) == IF backend = "bedrock" THEN TRUE ELSE byName

\* The probed value of the backend's map replaces the capability.
applyOverride(capability, backend, mantle, native) ==
  LET map == IF backend = "bedrock" THEN native ELSE mantle IN
  IF ModelId \in DOMAIN map THEN map[ModelId] ELSE capability

\* The last override is left out.
skipOverride(capability, backend, mantle, native) == capability

\* Apply runtime-probed tool support overrides last.
applyLastOverride(capability, backend, mantle, native) ==
  applyOverride(capability, backend, mantle, native)

\* applyExternalMetadata: tool support is switched on by either flag.
applyExternalMetadata(capability, meta) ==
  IF ~meta.present THEN capability
  ELSE IF meta.on # {} THEN TRUE ELSE capability

\* The capability fetchModels advertises for the model of a backend.
supportsToolCalling(backend, byName, meta, mantle, native) ==
  LET listed   == listedToolCalling(backend, byName)
      cached   == applyOverride(listed, backend, mantle, native)
      external == applyExternalMetadata(cached, meta)
  IN applyLastOverride(external, backend, mantle, native)

\* fetchModels: one model of each backend is listed, with some tool support by
\* name and some external metadata.
FetchModels ==
  /\ \E in \in [Backends -> [byName : BOOLEAN, meta : Metas]] :
       /\ listing' = in
       /\ models' = [b \in Backends |->
                       supportsToolCalling(b, in[b].byName, in[b].meta,
                                           mantleToolSupport, nativeToolSupport)]
  /\ UNCHANGED <<catalog, clients, emitPlaceholders, provider, locals, cancelled,
                 transport, settings, support, request, nativePath, parsedModel,
                 information, memento, clock, load>>

\* ------------------------------------------------------------- token limits
\* A JavaScript number: a finite one, counted in halves so that Math.floor has
\* something to do (v = 2 is the number 1), an infinity (v its sign), NaN; and
\* undefined.
Fin(v) == [kind |-> "fin", v |-> v]

Tokens(n) == Fin(2 * n)

Infinity == [kind |-> "inf", v |-> 1]

NaN == [kind |-> "nan", v |-> 0]

Undefined == [kind |-> "undefined", v |-> 0]

\* typeof x === "number"
typeofNumber(x) == x.kind # "undefined"

\* if (x): undefined, NaN and 0 are falsy.
NumTruthy(x) == ~(x.kind \in {"undefined", "nan"} \/ (x.kind = "fin" /\ x.v = 0))

\* x || 0
OrZero(x) == IF NumTruthy(x) THEN x ELSE Fin(0)

\* a > b (false when either is NaN)
Gt(a, b) ==
  CASE a.kind \in {"nan", "undefined"} \/ b.kind \in {"nan", "undefined"} -> FALSE
    [] a.kind = "inf" /\ b.kind = "inf" -> a.v > b.v
    [] a.kind = "inf" -> a.v > 0
    [] b.kind = "inf" -> b.v < 0
    [] OTHER -> a.v > b.v

MathFloor(x) ==
  CASE x.kind = "fin" -> Fin((x.v \div 2) * 2)
    [] x.kind = "undefined" -> NaN
    [] OTHER -> x

IsNaN(x) == x.kind \in {"nan", "undefined"}

MathMax(a, b) == IF IsNaN(a) \/ IsNaN(b) THEN NaN ELSE IF Gt(b, a) THEN b ELSE a

MathMin(a, b) == IF IsNaN(a) \/ IsNaN(b) THEN NaN ELSE IF Gt(a, b) THEN b ELSE a

\* a + b and a - b: the sum of opposite infinities is NaN.
Plus(a, b) ==
  CASE IsNaN(a) \/ IsNaN(b) -> NaN
    [] a.kind = "inf" /\ b.kind = "inf" -> IF a.v = b.v THEN a ELSE NaN
    [] a.kind = "inf" -> a
    [] b.kind = "inf" -> b
    [] OTHER -> Fin(a.v + b.v)

Negated(x) == IF IsNaN(x) THEN NaN ELSE [x EXCEPT !.v = -@]

Minus(a, b) == Plus(a, Negated(b))

\* The token fields of a model as the listings give them: parseModelInfo by
\* the name of a Mantle model (three cases), listNativeBedrockModels for a
\* native one.
ListedLimits ==
  { [contextLength |-> Tokens(c[1]), maxInputTokens |-> Undefined,
     maxOutputTokens |-> Tokens(c[2])] :
      c \in {<<128000, 4096>>, <<200000, 8192>>, <<180000, 4096>>, <<32000, 4096>>} }

\* Finite values of a token field of the registry go up to this many halves.
MaxMetaHalves == 4

\* What the registry document can hold in max_input_tokens and
\* max_output_tokens once loadExternalMetadataForModels has kept the numbers:
\* nothing, small numbers (negative, zero, fractions), numbers around and
\* above the listed limits, and the Infinity JSON.parse gives for a number
\* beyond the range of a double (1e999).
MetaNumbers ==
  {Undefined, Infinity} \cup {Fin(v) : v \in -1..MaxMetaHalves}
    \cup {Tokens(n) : n \in {1000, 150000, 300000}}

\* applyExternalMetadata, token limits.
applyTokenLimits(model, meta) ==
  LET m1 == IF typeofNumber(meta.max_output_tokens)
                 /\ Gt(meta.max_output_tokens, Fin(0))
              THEN [model EXCEPT !.maxOutputTokens = meta.max_output_tokens]
              ELSE model
  IN IF typeofNumber(meta.max_input_tokens) /\ Gt(meta.max_input_tokens, Fin(0))
       THEN [m1 EXCEPT
               !.maxInputTokens = meta.max_input_tokens,
               !.contextLength =
                  MathMax(m1.contextLength,
                          Plus(meta.max_input_tokens, OrZero(m1.maxOutputTokens)))]
       ELSE m1

\* The models fetchModels can hold when it advertises them.
ParsedModels ==
  { applyTokenLimits(listed, [max_input_tokens |-> i, max_output_tokens |-> o]) :
      listed \in ListedLimits, i \in MetaNumbers, o \in MetaNumbers }

NoInformation == [maxInputTokens |-> Undefined, maxOutputTokens |-> Undefined]

\* toLanguageModelChatInformation: the two token limits.
toLanguageModelChatInformation(model) ==
  LET explicitMaxInput == IF typeofNumber(model.maxInputTokens)
                            THEN MathFloor(model.maxInputTokens) ELSE Undefined
      maxOutput == MathMax(Tokens(1), MathFloor(OrZero(model.maxOutputTokens)))
  IN IF NumTruthy(explicitMaxInput) /\ Gt(explicitMaxInput, Fin(0))
       THEN [maxInputTokens |-> explicitMaxInput, maxOutputTokens |-> maxOutput]
       ELSE LET context == MathMax(Tokens(2), MathFloor(OrZero(model.contextLength)))
                safeMaxOutput == MathMin(maxOutput, Minus(context, Tokens(1)))
                maxInput == MathMax(Tokens(1), Minus(context, safeMaxOutput))
            IN [maxInputTokens |-> maxInput, maxOutputTokens |-> safeMaxOutput]

\* this._models.map((m) => this.toLanguageModelChatInformation(m)), for one
\* model.
Advertise ==
  /\ information = NoInformation
  /\ information' = toLanguageModelChatInformation(parsedModel)
  /\ UNCHANGED <<catalog, clients, emitPlaceholders, provider, locals, cancelled,
                 transport, settings, support, request, nativePath, models, listing,
                 parsedModel, memento, clock, load>>

\* ------------------------------------------------- external model metadata
\* Time is counted in half hours: Date.now() is clock, and cacheHours hours
\* are 2 * cacheHours of them.
MaxClock == 2

\* A provider's calls of loadExternalMetadataForModels, one after the other.
MaxLoads == 2

\* The model ids asked for, and the metadata of a model in a registry
\* document (two documents differ in what they say of a model).
MetaIds == {"a", "b"}

MetaValues == {"v1", "v2"}

\* Record<string, ExternalModelMetadata>: a function on the ids that have an
\* entry.
Records == UNION {[ids -> MetaValues] : ids \in SUBSET MetaIds}

NoEntries == <<>>

\* options.url as configured (with or without blanks around it) and
\* options.cacheHours.
Urls == {<<"u1">>, <<"SP", "u1">>, <<"u2">>}

CacheHours == {-1, 0, 1}

normalizeUrl(url) == trim(url)

\* memento.get(key) when nothing was stored.
NoCache == [present |-> FALSE, fetchedAt |-> 0, url |-> <<>>, byModelId |-> NoEntries]

CacheOf(fetchedAt, url, byModelId) ==
  [present |-> TRUE, fetchedAt |-> fetchedAt, url |-> url, byModelId |-> byModelId]

\* readCache: what was stored by this function has the fields it tests.
readCache(stored) == stored

\* Date.now() - cache.fetchedAt < maxAgeMs: a cache of exactly the age
\* allowed is not used.
isCacheFreshStrict(cache, now, maxAgeMs) == now - cache.fetchedAt < maxAgeMs

\* Date.now() - cache.fetchedAt <= maxAgeMs
isCacheFresh(cache, now, maxAgeMs) == now - cache.fetchedAt <= maxAgeMs

\* const cachedUsable = cached && cached.url === url && (maxAgeMs === 0 ?
\* false : isCacheFresh(cached, maxAgeMs))
cachedUsable(cached, url, now, maxAgeMs) ==
  /\ cached.present
  /\ cached.url = url
  /\ IF maxAgeMs = 0 THEN FALSE ELSE isCacheFresh(cached, now, maxAgeMs)

\* options.modelIds.filter((id) => !byModelId[id])
missing(modelIds, byModelId) == modelIds \ DOMAIN byModelId

\* A failed load leaves what it returns in the persisted cache.
persistOnFailure(stored, url, now, byModelId) == CacheOf(now, url, byModelId)

\* The failure paths return without a memento.update.
keepOnFailure(stored, url, now, byModelId) == stored

\* The loop over options.modelIds: byModelId[modelId] = meta for every id
\* asked for that the document has a useful entry for.
merged(byModelId, modelIds, document) ==
  LET found == modelIds \cap DOMAIN document IN
  [id \in DOMAIN byModelId \cup found |->
     IF id \in found THEN document[id] ELSE byModelId[id]]

\* What fetch and response.json() can give: the fetch rejects, the status is
\* not OK, the body is not JSON, the JSON is null or a scalar; otherwise the
\* document is taken (an array passes the typeof test and has no entry for
\* any key).
FetchFailures == {"network error", "not OK", "unparsable JSON", "not an object"}

\* A call of loadExternalMetadataForModels: where it is, its options, its
\* locals, what it returned, and a record of what it did (the cache and the
\* time it started with, the fetches and cache writes it made, the document
\* it was given, how it ended).
NoLoad ==
  [at |-> "idle", url |-> <<>>, cacheHours |-> 0, modelIds |-> {},
   byModelId |-> NoEntries, returned |-> NoEntries,
   before |-> NoCache, began |-> 0, fetches |-> 0, writes |-> 0,
   document |-> NoEntries, ended |-> "none", calls |-> 0]

\* loadExternalMetadataForModels up to the fetch: the cache is read, and when
\* it is usable and has every id asked for its entries are returned.
LoadBegin ==
  /\ load.at \in {"idle", "returned"}
  /\ load.calls < MaxLoads
  /\ \E rawUrl \in Urls, hours \in CacheHours, modelIds \in SUBSET MetaIds :
       LET url == normalizeUrl(rawUrl)
           cacheHours == IF hours > 0 THEN hours ELSE 0
           maxAgeMs == 2 * cacheHours
           cached == readCache(memento)
           usable == cachedUsable(cached, url, clock, maxAgeMs)
           byModelId == IF usable THEN cached.byModelId ELSE NoEntries
           call == [NoLoad EXCEPT !.url = rawUrl, !.cacheHours = hours,
                                  !.modelIds = modelIds, !.byModelId = byModelId,
                                  !.before = memento, !.began = clock,
                                  !.calls = load.calls + 1]
       IN load' = IF usable /\ missing(modelIds, byModelId) = {}
                    THEN [call EXCEPT !.at = "returned", !.returned = byModelId,
                                      !.ended = "cache"]
                    ELSE [call EXCEPT !.at = "fetching", !.fetches = 1]
  /\ UNCHANGED <<catalog, clients, emitPlaceholders, provider, locals, cancelled,
                 transport, settings, support, request, nativePath, models, listing,
                 parsedModel, information, memento, clock>>

\* The fetch is answered: a failure returns the entries at hand; a document
\* is searched for the ids asked for, what is found is added to the entries,
\* and the entries are stored with the time and the URL and returned.
FetchAnswer ==
  /\ load.at = "fetching"
  /\ \/ \E reason \in FetchFailures :
          /\ load' = [load EXCEPT !.at = "returned", !.returned = load.byModelId,
                                  !.ended = reason]
          /\ memento' = keepOnFailure(memento, normalizeUrl(load.url), clock,
                                      load.byModelId)
     \/ \E document \in Records :
          LET byModelId == merged(load.byModelId, load.modelIds, document) IN
          /\ memento' = CacheOf(clock, normalizeUrl(load.url), byModelId)
          /\ load' = [load EXCEPT !.at = "returned", !.byModelId = byModelId,
                                  !.returned = byModelId, !.writes = 1,
                                  !.document = document, !.ended = "fetched"]
  /\ UNCHANGED <<catalog, clients, emitPlaceholders, provider, locals, cancelled,
                 transport, settings, support, request, nativePath, models, listing,
                 parsedModel, information, clock>>

\* Half an hour passes.
ClockTick ==
  /\ clock < MaxClock
  /\ clock' = clock + 1
  /\ UNCHANGED <<catalog, clients, emitPlaceholders, provider, locals, cancelled,
                 transport, settings, support, request, nativePath, models, listing,
                 parsedModel, information, memento, load>>

\* ----------------------------------------------------------- specifications
InitCommon ==
  /\ toolCallBuffers = NoBufs
  /\ bufferKeys = <<>>
  /\ completedToolCallIndices = {}
  /\ reportedAnyPart = FALSE
  /\ generated = 0
  /\ pc = [r \in Resp |-> "idle"]
  /\ buffer = [r \in Resp |-> <<>>]
  /\ emittedAny = [r \in Resp |-> FALSE]
  /\ doneSeen = [r \in Resp |-> FALSE]
  /\ cancelled = [r \in Resp |-> FALSE]
  /\ out = [r \in Resp |-> <<>>]
  /\ outcome = [r \in Resp |-> "none"]
  /\ nline = [r \in Resp |-> 0]
  /\ wire = [r \in Resp |-> <<>>]
  /\ closed = [r \in Resp |-> FALSE]
  /\ sent = [r \in Resp |-> 0]
  /\ fed = [r \in Resp |-> <<>>]
  /\ log = [r \in Resp |-> <<>>]
  /\ afterCancel = [r \in Resp |-> 0]
  /\ heartbeat = [r \in Resp |-> "unset"]
  /\ firstByteReceived = [r \in Resp |-> FALSE]
  /\ failure = [r \in Resp |-> "none"]
  /\ models = <<>>
  /\ listing = <<>>
  /\ nat = NoNative
  /\ fired = 0
  /\ tools = [r \in Resp |-> FALSE]
  /\ status = [r \in Resp |-> 0]
  /\ requests = [r \in Resp |-> <<>>]
  /\ message = [r \in Resp |-> <<>>]
  /\ errorText = [r \in Resp |-> <<>>]
  /\ chatMessages = [r \in Resp |-> <<>>]

\* The requests come with one message of one text part.
PlainRequests == conversations = {<<TextOf>>}

\* Nothing is stored under the cache key and no metadata is being loaded.
NoMetadata == memento = NoCache /\ clock = 0 /\ load = NoLoad

\* No model is being advertised.
NoAdvertising ==
  /\ parsedModel = [contextLength |-> Tokens(32000), maxInputTokens |-> Undefined,
                    maxOutputTokens |-> Tokens(4096)]
  /\ information = NoInformation

\* The requests come without tools (the setting sendTools at its default).
NoTools == sendTools = TRUE /\ offers = {FALSE}

\* A new provider: no tool support has been probed.  (The cache of
\* inference profiles is of no account to the Mantle path.)
NoProbes ==
  /\ mantleToolSupport = NoSupport /\ nativeToolSupport = NoSupport
  /\ profileCache = "none"

\* One response on a provider, with the setting emitPlaceholders at its
\* default (false) or switched on.
Init ==
  /\ InitCommon
  /\ NoAdvertising
  /\ NoMetadata
  /\ PlainRequests
  /\ NoTools
  /\ NoProbes
  /\ clients = {1}
  /\ \/ catalog \in {ToolFamily, WireFamily, FrameFamily} /\ emitPlaceholders = FALSE
     \/ catalog = PlaceholderFamily /\ emitPlaceholders = TRUE

Next ==
  \E r \in Resp :
    \/ Begin(r)
    \/ Respond(r)
    \/ HttpError(r)
    \/ ErrorBody(r)
    \/ FetchFail(r)
    \/ Tick(r)
    \/ ServerSend(r)
    \/ ServerClose(r)
    \/ Cancel(r)
    \/ ReadChunk(r)
    \/ ReadDone(r)
    \/ ReadFail(r)

Spec == Init /\ [][Next]_vars

\* Two responses on the same provider, in flight at the same time.
InitConc ==
  /\ InitCommon
  /\ NoAdvertising
  /\ NoMetadata
  /\ PlainRequests
  /\ NoTools
  /\ NoProbes
  /\ clients = Resp
  /\ catalog = ConcFamily
  /\ emitPlaceholders = FALSE

SpecConc == InitConc /\ [][Next]_vars

\* One response whose frames exercise the fields of the deltas.
InitFields ==
  /\ InitCommon
  /\ NoAdvertising
  /\ NoMetadata
  /\ PlainRequests
  /\ NoTools
  /\ NoProbes
  /\ clients = {1}
  /\ \/ catalog = FieldFamily /\ emitPlaceholders \in BOOLEAN
     \/ catalog = IdFamily /\ emitPlaceholders = FALSE

SpecFields == InitFields /\ [][Next]_vars

\* Lines that carry no chunk (blank, a comment, metadata, a JSON text without
\* the data prefix, a data line with an empty payload) among the fragments of
\* a tool call.
LineFamily ==
  { <<"LF">>, <<":", "SP", "LF">>, <<"EVT", "CR", "LF">>, <<"T2", "}", "LF">>,
    <<"SP", "DATA", "SP", "LF">>, DataLine("A1"), DataLine("A3") }

\* One response whose stream mixes such lines with data frames.
InitLines ==
  /\ InitCommon
  /\ NoAdvertising
  /\ NoMetadata
  /\ PlainRequests
  /\ NoTools
  /\ NoProbes
  /\ clients = {1}
  /\ catalog = LineFamily
  /\ emitPlaceholders = FALSE

SpecLines == InitLines /\ [][Next]_vars

\* The token limits of one model: what the listing and the registry say of it
\* is drawn by Init, and the model is advertised.
InitLimits ==
  /\ InitCommon
  /\ NoMetadata
  /\ PlainRequests
  /\ NoTools
  /\ NoProbes
  /\ clients = {}
  /\ catalog = {}
  /\ emitPlaceholders = FALSE
  /\ parsedModel \in ParsedModels
  /\ information = NoInformation

NextLimits == Advertise

SpecLimits == InitLimits /\ [][NextLimits]_vars

\* The requests have at most this many parts in their messages.
MaxParts == 4

Conversations == UNION {[1..n -> MessageParts] : n \in 0..MaxParts}

\* One response to a request that comes with any messages.
InitValidate ==
  /\ InitCommon
  /\ NoAdvertising
  /\ NoMetadata
  /\ NoTools
  /\ NoProbes
  /\ clients = {1}
  /\ catalog = {DataLine("T1"), DoneLine}
  /\ emitPlaceholders = FALSE
  /\ \E parts \in Conversations : conversations = {parts}

SpecValidate == InitValidate /\ [][Next]_vars

\* The external metadata is loaded a number of times, with any options,
\* starting with nothing stored.
InitMetadata ==
  /\ InitCommon
  /\ NoAdvertising
  /\ NoMetadata
  /\ PlainRequests
  /\ NoTools
  /\ NoProbes
  /\ clients = {}
  /\ catalog = {}
  /\ emitPlaceholders = FALSE

NextMetadata == LoadBegin \/ FetchAnswer \/ ClockTick

SpecMetadata == InitMetadata /\ [][NextMetadata]_vars

\* Two responses on the same provider, one after the other: a response is
\* requested when no other is in flight.
BeginNext(r) == Begin(r) /\ \A q \in clients \ {r} : pc[q] \in {"idle", "done"}

NextSeq ==
  \E r \in Resp :
    \/ BeginNext(r)
    \/ Respond(r)
    \/ HttpError(r)
    \/ ErrorBody(r)
    \/ FetchFail(r)
    \/ Tick(r)
    \/ ServerSend(r)
    \/ ServerClose(r)
    \/ Cancel(r)
    \/ ReadChunk(r)
    \/ ReadDone(r)
    \/ ReadFail(r)

\* The responses carry a tool call in two fragments.
InitSeq ==
  /\ InitCommon
  /\ NoAdvertising
  /\ NoMetadata
  /\ PlainRequests
  /\ NoTools
  /\ NoProbes
  /\ clients = Resp
  /\ catalog = ConcFamily
  /\ emitPlaceholders = FALSE

SpecSeq == InitSeq /\ [][NextSeq]_vars

\* Discovery on a provider whose maps of probed tool support hold what
\* earlier requests left there: nothing, true or false.
Supports == {NoSupport, [k \in {ModelId} |-> TRUE], [k \in {ModelId} |-> FALSE]}

InitModels ==
  /\ InitCommon
  /\ NoAdvertising
  /\ NoMetadata
  /\ PlainRequests
  /\ NoTools
  /\ clients = {}
  /\ catalog = {}
  /\ emitPlaceholders = FALSE
  /\ mantleToolSupport \in Supports
  /\ nativeToolSupport \in Supports
  /\ profileCache = "none"

NextModels == FetchModels

SpecModels == InitModels /\ [][NextModels]_vars

\* A text frame and the Terminator.
TextFamily == { DataLine("T1"), DoneLine }

\* One response that comes with or without tools, under either value of the
\* setting sendTools, on a provider whose map of probed tool support holds
\* what earlier requests left there.
InitTools ==
  /\ InitCommon
  /\ NoAdvertising
  /\ NoMetadata
  /\ PlainRequests
  /\ clients = {1}
  /\ catalog = TextFamily
  /\ emitPlaceholders = FALSE
  /\ sendTools \in BOOLEAN
  /\ offers = BOOLEAN
  /\ mantleToolSupport \in Supports
  /\ nativeToolSupport = NoSupport
  /\ profileCache = "none"

SpecTools == InitTools /\ [][Next]_vars

\* Native responses, one after the other, on a new provider; globalState
\* holds what earlier sessions left there.
InitNative ==
  /\ InitCommon
  /\ NoAdvertising
  /\ NoMetadata
  /\ PlainRequests
  /\ clients = {}
  /\ catalog = {}
  /\ emitPlaceholders = FALSE
  /\ sendTools \in BOOLEAN
  /\ offers = BOOLEAN
  /\ mantleToolSupport = NoSupport
  /\ nativeToolSupport = NoSupport
  /\ profileCache \in {"none", "fresh", "stale"}

NextNative ==
  \/ NativeBegin
  \/ ConverseOk
  \/ ConverseFail
  \/ ResolveFromCache
  \/ ResolveByLookup

SpecNative == InitNative /\ [][NextNative]_vars

\* One response whose pending reads are eventually answered and whose
\* transport eventually closes: a read that can resolve does resolve (the
\* event loop runs the continuation of a settled promise), and the server,
\* which sends a bounded number of lines, closes the stream once it is drained.
\* Weak fairness of ReadChunk(1) and of ReadDone(1) is written out with the
\* conditions under which they are enabled: WF_vars(A) is
\* []<>~ENABLED <<A>>_vars \/ []<><<A>>_vars.
ReadChunkEnabled(r) == pc[r] = "reading" /\ wire[r] # <<>>

ReadDoneEnabled(r) == pc[r] = "reading" /\ wire[r] = <<>> /\ closed[r]

Fairness ==
  /\ WF_vars(ServerClose(1))
  /\ []<>(~ReadChunkEnabled(1)) \/ []<><<ReadChunk(1)>>_vars
  /\ []<>(~ReadDoneEnabled(1)) \/ []<><<ReadDone(1)>>_vars

\* Text, reasoning, an unterminated last line and the Terminator.
FairFamily == { DataLine("T1"), DataLine("R1"), <<"DATA", "T2", "}">>, DoneLine }

InitFair ==
  /\ InitCommon
  /\ NoAdvertising
  /\ NoMetadata
  /\ PlainRequests
  /\ NoTools
  /\ NoProbes
  /\ clients = {1}
  /\ catalog = FairFamily
  /\ emitPlaceholders = FALSE

SpecFair == InitFair /\ [][Next]_vars /\ Fairness

\* ------------------------------------------------- vocabulary of the claims
\* The fragments visited for index i in response r, and the tool calls
\* reported for it.
Frags(r, i) == SelectSeq(log[r], LAMBDA e : e.index = i)

ToolParts(r, i) == SelectSeq(out[r], LAMBDA e : e.kind = "tool" /\ e.index = i)

\* The concatenation of the argument fragments F[1..j].
RECURSIVE ArgsUpTo(_, _)
ArgsUpTo(F, j) == IF j = 0 THEN <<>> ELSE ArgsUpTo(F, j - 1) \o F[j].arguments

NameBy(F, j) == \E k \in 1..j : Truthy(F[k].name)

\* After fragment j the name is known and the arguments so far are a
\* complete JSON object.
Ready(F, j) == NameBy(F, j) /\ JSONparse(ArgsUpTo(F, j)).kind = "object"

FirstReady(F) == CHOOSE j \in 1..Len(F) : Ready(F, j) /\ \A k \in 1..(j - 1) : ~Ready(F, k)

\* The response ran to its end by itself: [DONE], a clean close, or the
\* loop left on cancellation (not a rejected read).
Ended(r) == pc[r] = "done" /\ outcome[r] \in {"returned", "empty_error"}

\* The waiting placeholder of the stall timer has been reported in response r.
StallReported(r) == \E p \in 1..Len(out[r]) : out[r][p].value = "Waiting"

\* C1: for every tool-call index of a response, if some fragment leaves the
\* name known and the concatenation of all argument fragments so far a
\* complete JSON object, exactly one tool call is reported for the index, in
\* the line of the first such fragment and with the parse of that
\* concatenation as arguments; otherwise none is reported.
C1_ArgumentReconstruction ==
  \A r \in clients : \A i \in Idx :
    LET F == Frags(r, i)
        E == ToolParts(r, i)
    IN IF \E j \in 1..Len(F) : Ready(F, j)
         THEN /\ Len(E) = 1
              /\ E[1].frame = F[FirstReady(F)].frame
              /\ E[1].input = JSONparse(ArgsUpTo(F, FirstReady(F))).value
         ELSE E = <<>>

\* Witness of C1: a tool call assembled from three fragments, reported with
\* {a:1, b:2} in the line of the third.
C1_Witness ==
  \E r \in clients :
    /\ Len(Frags(r, 0)) = 3
    /\ ~Ready(Frags(r, 0), 1) /\ ~Ready(Frags(r, 0), 2) /\ Ready(Frags(r, 0), 3)
    /\ Len(ToolParts(r, 0)) = 1
    /\ ToolParts(r, 0)[1].input = [k \in Keys |-> IF k = "a" THEN "1" ELSE "2"]
    /\ ToolParts(r, 0)[1].frame = 3

\* C2: an index that is completed has no buffer and exactly one reported
\* tool call, whatever fragments for it came after the report.
C2_Idempotence ==
  \A r \in clients : pc[r] # "idle" =>
    \A i \in Idx :
      /\ Len(ToolParts(r, i)) <= 1
      /\ i \in completedToolCallIndices =>
           /\ ~toolCallBuffers[i].has
           /\ Len(ToolParts(r, i)) = 1

\* Witness of C2: a fragment with a name and complete arguments arrived for an
\* index after its tool call had been reported.
C2_Witness ==
  \E r \in clients : \E i \in Idx :
    /\ Len(ToolParts(r, i)) = 1
    /\ \E j \in 1..Len(Frags(r, i)) :
         /\ Frags(r, i)[j].frame > ToolParts(r, i)[1].frame
         /\ Truthy(Frags(r, i)[j].name)
         /\ JSONparse(Frags(r, i)[j].arguments).kind = "object"

\* The fragments for the index of part e that arrived up to the line of e.
FragsUpTo(r, e) ==
  SelectSeq(log[r], LAMBDA f : f.index = e.index /\ f.frame <= e.frame)

GeneratedIdSet == {GeneratedIds[n] : n \in 1..Len(GeneratedIds)}

\* C3: every reported tool call has a name, a call id (one the fragments
\* carried, a generated one when they carried none) and, as arguments, the
\* parse as a JSON object of the whole argument string accumulated for its
\* index; a buffer still open at the end of the stream has produced no tool
\* call and the response returns normally.
C3_OnlyCompleteToolCalls ==
  \A r \in clients :
    /\ \A p \in 1..Len(out[r]) :
         LET e == out[r][p]
             F == FragsUpTo(r, e)
             ids == {F[j].id : j \in 1..Len(F)} \ {Absent, ""}
         IN e.kind = "tool" =>
              /\ Truthy(e.name)
              /\ Truthy(e.callId)
              /\ IF ids = {} THEN e.callId \in GeneratedIdSet ELSE e.callId \in ids
              /\ JSONparse(ArgsUpTo(F, Len(F))).kind = "object"
              /\ e.input = JSONparse(ArgsUpTo(F, Len(F))).value
    /\ Ended(r) =>
         \A i \in Idx : toolCallBuffers[i].has =>
           /\ ToolParts(r, i) = <<>>
           /\ outcome[r] = "returned"

\* Witness of C3: the stream ended with one buffer still open whose arguments
\* parse but are no object (or which has no name), and with a tool call
\* reported under a generated id.
C3_Witness ==
  \E r \in clients :
    /\ Ended(r)
    /\ \E i \in Idx : /\ toolCallBuffers[i].has
                      /\ JSONparse(toolCallBuffers[i].args).kind \in {"array", "object"}
    /\ \E p \in 1..Len(out[r]) : out[r][p].kind = "tool" /\ out[r][p].callId \in GeneratedIdSet

\* The n-th line given to processLine in response r, and the text field of
\* the first choice of the frame it carries (Absent when it carries none).
LineAt(r, n) == split(fed[r])[n]

ContentOf(line) ==
  LET t == trim(line)
      parsed == ParseChunk(dataOf(t))
  IN IF startsWith(t, "DATA") /\ parsed.ok /\ parsed.chunk.hasChoices
        /\ parsed.chunk.choices # <<>>
       THEN parsed.chunk.choices[1].content
       ELSE Absent

ReasoningOf(line) ==
  LET t == trim(line)
      parsed == ParseChunk(dataOf(t))
  IN IF startsWith(t, "DATA") /\ parsed.ok /\ parsed.chunk.hasChoices
        /\ parsed.chunk.choices # <<>>
       THEN parsed.chunk.choices[1].reasoning
       ELSE Absent

\* The texts of the choices of a chunk that are not empty, in order, up to the
\* first choice without a delta; and those of the frame a line carries.
RECURSIVE TextsOf(_)
TextsOf(choices) ==
  IF choices = <<>> \/ ~Head(choices).hasDelta THEN <<>>
  ELSE (IF Truthy(Head(choices).content) THEN <<Head(choices).content>> ELSE <<>>)
         \o TextsOf(Tail(choices))

ContentsOf(line) ==
  LET t == trim(line)
      parsed == ParseChunk(dataOf(t))
  IN IF startsWith(t, "DATA") /\ parsed.ok /\ parsed.chunk.hasChoices
       THEN TextsOf(parsed.chunk.choices)
       ELSE <<>>

\* C4: the parts are reported in the order of the lines that produced them:
\* line numbers never decrease along the reported parts, a text part carries
\* the text of its line (or is the placeholder of a reasoning line), and a
\* tool call is reported in a line that carried a fragment for its index.
\* The waiting placeholder of the stall timer comes from no line.
C4_ArrivalOrder ==
  \A r \in clients :
    /\ \A p, q \in 1..Len(out[r]) : p < q => out[r][p].frame <= out[r][q].frame
    /\ \A p \in 1..Len(out[r]) :
         LET e == out[r][p] IN
         /\ e.value = "Waiting" => emitPlaceholders
         /\ e.value # "Waiting" => e.frame \in 1..Len(split(fed[r]))
         /\ (e.kind = "text" /\ e.value # "Waiting") =>
              \/ \E c \in 1..Len(ContentsOf(LineAt(r, e.frame))) :
                   e.value = ContentsOf(LineAt(r, e.frame))[c]
              \/ /\ emitPlaceholders
                 /\ e.value = "Thinking"
                 /\ Truthy(ReasoningOf(LineAt(r, e.frame)))
         /\ e.kind = "tool" =>
              \E j \in 1..Len(log[r]) :
                log[r][j].index = e.index /\ log[r][j].frame = e.frame

\* Witness of C4: index 0 got its first fragment before index 1 got any, and
\* the tool call of index 1 is reported before the tool call of index 0.
C4_Witness ==
  \E r \in clients : \E p, q \in 1..Len(out[r]) :
    /\ p < q
    /\ out[r][p].kind = "tool" /\ out[r][p].index = 1
    /\ out[r][q].kind = "tool" /\ out[r][q].index = 0
    /\ Frags(r, 0) # <<>> /\ Frags(r, 1) # <<>>
    /\ Frags(r, 0)[1].frame < Frags(r, 1)[1].frame

\* The decoder state after the text is fed as one chunk; atEnd: followed by
\* the clean end of the stream.
OneChunk(text, atEnd, ph) ==
  LET lines == split(text)
      D1 == processLines(FreshDecoder(ph), allButLast(lines))
  IN IF atEnd THEN flushResidual(D1, popLast(lines)) ELSE D1

\* C5: however the bytes read so far were cut into chunks, the parts
\* reported, the flags and the unfinished line are those of feeding the same
\* bytes as one chunk, and a stream that ended has the same outcome (the
\* stall timer, which goes by the clock, having reported nothing).
C5_ChunkBoundaryInvariance ==
  \A r \in clients :
    (pc[r] \in {"reading", "done"} /\ ~cancelled[r] /\ failure[r] = "none"
       /\ ~StallReported(r)) =>
      LET R == OneChunk(fed[r], Ended(r), emitPlaceholders) IN
      /\ out[r] = R.out
      /\ emittedAny[r] = R.emittedAny
      /\ doneSeen[r] = R.doneSeen
      /\ toolCallBuffers = R.bufs
      /\ completedToolCallIndices = R.completed
      /\ pc[r] = "reading" => buffer[r] = popLast(split(fed[r]))
      /\ Ended(r) => outcome[r] = exitOutcome(R, FALSE)

\* Witness of C5: a chunk ended between the CR and the LF of a line ending
\* whose line carries a frame, after a part had been reported.
C5_Witness ==
  \E r \in clients :
    /\ pc[r] = "reading" /\ ~cancelled[r]
    /\ Len(buffer[r]) >= 4
    /\ buffer[r][Len(buffer[r])] = "CR"
    /\ buffer[r][Len(buffer[r]) - 1] = "}"
    /\ wire[r] # <<>> /\ Head(wire[r]) = "LF"
    /\ out[r] # <<>>

\* C6 (as claimed): a response that ran to its end without cancellation and
\* without any part reported fails with the empty-response error.
C6_EmptyResponseDetected ==
  \A r \in clients :
    (Ended(r) /\ ~cancelled[r] /\ out[r] = <<>>) => outcome[r] = "empty_error"

ToolView(parts) ==
  LET T == SelectSeq(parts, LAMBDA e : e.kind = "tool")
  IN [p \in 1..Len(T) |-> <<T[p].index, T[p].name, T[p].input>>]

\* C8 (as claimed): every response reports exactly the tool calls it would
\* report when its stream is decoded alone.
C8_IsolatedStreamState ==
  \A r \in clients :
    (pc[r] \in {"reading", "done"} /\ ~cancelled[r] /\ failure[r] = "none") =>
      ToolView(out[r]) = ToolView(OneChunk(fed[r], Ended(r), emitPlaceholders).out)

\* A data line whose payload is not empty, not the Terminator, and does not
\* parse.
IsMalformed(line) ==
  LET t == trim(line) IN
  /\ t # <<>> /\ Head(t) = "DATA"
  /\ dataOf(t) \notin {<<>>, <<"DONE">>}
  /\ ~ParseChunk(dataOf(t)).ok

Untag(parts) == [p \in 1..Len(parts) |-> [parts[p] EXCEPT !.frame = 0]]

\* The decoder state after the lines of the text with the malformed ones left
\* out.
WithoutMalformed(text, atEnd, ph) ==
  LET lines == split(text)
      D1 == processLines(FreshDecoder(ph),
                         SelectSeq(allButLast(lines), LAMBDA l : ~IsMalformed(l)))
  IN IF atEnd /\ ~IsMalformed(popLast(lines))
       THEN flushResidual(D1, popLast(lines)) ELSE D1

\* C9: a data frame whose payload does not parse changes nothing: the parts
\* reported, the tool-call buffers, the completed set, the flags and the
\* outcome of the response are those of the same stream without these frames.
C9_MalformedFrameSkipped ==
  \A r \in clients :
    (pc[r] \in {"reading", "done"} /\ failure[r] = "none" /\ ~StallReported(r)) =>
      LET R == WithoutMalformed(fed[r], Ended(r), emitPlaceholders) IN
      /\ Untag(out[r]) = Untag(R.out)
      /\ toolCallBuffers = R.bufs
      /\ completedToolCallIndices = R.completed
      /\ emittedAny[r] = R.emittedAny
      /\ doneSeen[r] = R.doneSeen
      /\ Ended(r) => outcome[r] = exitOutcome(R, cancelled[r])

\* Witness of C9: a malformed frame was read, a later line produced a part,
\* and the response returned normally.
C9_Witness ==
  \E r \in clients :
    /\ Ended(r) /\ outcome[r] = "returned" /\ ~cancelled[r]
    /\ \E n \in 1..Len(split(fed[r])) : \E p \in 1..Len(out[r]) :
         IsMalformed(LineAt(r, n)) /\ out[r][p].frame > n

IsCommentLine(line) == trim(line) # <<>> /\ Head(trim(line)) = ":"

IsDoneLine(line) ==
  LET t == trim(line) IN t # <<>> /\ Head(t) = "DATA" /\ dataOf(t) = <<"DONE">>

\* The line is a data frame whose payload parses, and the chunk it carries.
IsFrame(line) ==
  LET t == trim(line) IN t # <<>> /\ Head(t) = "DATA" /\ ParseChunk(dataOf(t)).ok

ChunkAt(line) == ParseChunk(dataOf(trim(line))).chunk

\* ... and the chunk has the shape processDelta expects.
IsValidFrame(line) ==
  /\ IsFrame(line)
  /\ ChunkAt(line).hasChoices
  /\ \A c \in 1..Len(ChunkAt(line).choices) : ChunkAt(line).choices[c].hasDelta

\* The stream of response r is n comment lines, one valid data frame with
\* text (in one choice), and the Terminator.
KeepaliveStream(r, n) ==
  LET lines == split(fed[r]) IN
  /\ Len(lines) >= n + 3
  /\ \A k \in 1..n : IsCommentLine(lines[k])
  /\ IsValidFrame(lines[n + 1])
  /\ Len(ChunkAt(lines[n + 1]).choices) = 1
  /\ Truthy(ContentOf(lines[n + 1]))
  /\ IsDoneLine(lines[n + 2])

\* C10: a stream of comment lines, one data frame with text and the
\* Terminator returns normally, and the text of the frame is the only part
\* reported.
C10_KeepaliveTolerance ==
  \A r \in clients : \A n \in 0..Len(fed[r]) :
    (Ended(r) /\ ~cancelled[r] /\ KeepaliveStream(r, n) /\ ~StallReported(r)) =>
      /\ outcome[r] = "returned"
      /\ out[r] = <<TextPart(ContentOf(split(fed[r])[n + 1]), n + 1)>>

\* Witness of C10: such a stream with at least two comment lines has ended.
C10_Witness ==
  \E r \in clients : \E n \in 2..Len(fed[r]) :
    Ended(r) /\ ~cancelled[r] /\ KeepaliveStream(r, n) /\ ~StallReported(r)

\* The number of the Terminator line of response r: the first line of the
\* stream read so far that is `data: [DONE]` (0 when there is none).
DoneIndex(r) ==
  LET lines == split(fed[r])
      at == {n \in 1..Len(lines) : IsDoneLine(lines[n])}
  IN IF at = {} THEN 0 ELSE CHOOSE n \in at : \A m \in at : n <= m

\* Once the Terminator is classified nothing more is decoded: the response
\* has left the read loop, the Terminator is the last line processLine was
\* called on (no later line, chunk or residual), every part comes from a line
\* up to it, and the stall timer is cleared.
TerminatorStops(r) ==
  doneSeen[r] =>
    /\ pc[r] = "done"
    /\ DoneIndex(r) > 0 /\ nline[r] = DoneIndex(r)
    /\ \A p \in 1..Len(out[r]) : out[r][p].frame <= DoneIndex(r)
    /\ heartbeat[r] = "cleared"

\* C11 (as claimed): the Terminator ends decoding, nothing is processed or
\* reported after it, and the response returns normally when at least one
\* part was reported.
C11_TerminatorEndsDecoding ==
  \A r \in clients :
    /\ TerminatorStops(r)
    /\ (doneSeen[r] /\ out[r] # <<>>) => outcome[r] = "returned"

\* The first conjunct of C11 alone.
C11_NothingAfterTerminator == \A r \in clients : TerminatorStops(r)

\* The values of the text parts that are no placeholders.
TextValues(parts) ==
  LET T == SelectSeq(parts, LAMBDA e : e.kind = "text" /\ e.value \notin {"Thinking", "Waiting"})
  IN [p \in 1..Len(T) |-> T[p].value]

\* The text fields that are present (the empty string included) in the
\* choices of a chunk, up to the first choice without a delta.
RECURSIVE PresentTextsOf(_)
PresentTextsOf(choices) ==
  IF choices = <<>> \/ ~Head(choices).hasDelta THEN <<>>
  ELSE (IF Head(choices).content # Absent THEN <<Head(choices).content>> ELSE <<>>)
         \o PresentTextsOf(Tail(choices))

\* The present text fields of the first n lines, in order.
RECURSIVE PresentTextsUpTo(_, _)
PresentTextsUpTo(lines, n) ==
  IF n = 0 THEN <<>>
  ELSE PresentTextsUpTo(lines, n - 1)
         \o (IF IsFrame(lines[n]) /\ ChunkAt(lines[n]).hasChoices
               THEN PresentTextsOf(ChunkAt(lines[n]).choices) ELSE <<>>)

\* The non-empty text fields of the first n lines, in order.
RECURSIVE ContentsUpTo(_, _)
ContentsUpTo(lines, n) ==
  IF n = 0 THEN <<>> ELSE ContentsUpTo(lines, n - 1) \o ContentsOf(lines[n])

FirstId(F) ==
  LET at == {j \in 1..Len(F) : Truthy(F[j].id)}
  IN IF at = {} THEN Absent ELSE F[CHOOSE j \in at : \A k \in at : j <= k].id

FirstName(F) ==
  LET at == {j \in 1..Len(F) : Truthy(F[j].name)}
  IN IF at = {} THEN Absent ELSE F[CHOOSE j \in at : \A k \in at : j <= k].name

\* C13 (as claimed): the id and the name of a tool-call buffer are the first
\* non-empty ones received for its index, and a reported tool call carries
\* the first name and (when a fragment carried an id) the first id.
C13_FirstIdAndNameWin ==
  \A r \in clients :
    /\ \A i \in Idx :
         (pc[r] = "reading" /\ toolCallBuffers[i].has) =>
           /\ toolCallBuffers[i].id = FirstId(Frags(r, i))
           /\ toolCallBuffers[i].name = FirstName(Frags(r, i))
    /\ \A p \in 1..Len(out[r]) :
         LET e == out[r][p]
             F == FragsUpTo(r, e)
         IN e.kind = "tool" =>
              /\ e.name = FirstName(F)
              /\ Truthy(FirstId(F)) => e.callId = FirstId(F)

\* C14: when a pending read (or the fetch) has rejected with an error that is
\* no abort, the call has ended by throwing that error to its caller, and
\* neither the failing step nor any later step changes the parts reported:
\* what was reported stays, nothing is added.
C14_TransportFailurePropagated ==
  [][\A r \in clients :
       failure'[r] = "TypeError" =>
         /\ pc'[r] = "done"
         /\ outcome'[r] = "transport_error"
         /\ heartbeat'[r] # "set"
         /\ out'[r] = out[r]]_vars

\* Witness of C14: a read of the stream rejected after two parts had been
\* reported and with a fragment still buffered.
C14_Witness ==
  \E r \in clients :
    /\ failure[r] = "TypeError" /\ outcome[r] = "transport_error"
    /\ Len(out[r]) >= 2
    /\ buffer[r] # <<>>

\* C15: a response whose token was cancelled (while the fetch, the read of
\* an error body or a read of the stream was pending) ends without an error:
\* it returns after the loop or silently on the AbortError, and never with the
\* empty-response error, whatever was reported.
C15_CancellationIsNoError ==
  \A r \in clients :
    (cancelled[r] /\ pc[r] = "done") => outcome[r] \in {"returned", "aborted"}

\* Witness of C15: a response cancelled while streaming left the read loop and
\* returned with nothing reported and nothing decoded.
C15_Witness ==
  \E r \in clients :
    /\ cancelled[r] /\ pc[r] = "done" /\ outcome[r] = "returned"
    /\ fed[r] # <<>> /\ out[r] = <<>> /\ ~emittedAny[r]

\* C16 (as claimed): a response that reported at least one part does not end
\* with the empty-response error.
C16_EmptinessOnlyReason ==
  \A r \in clients : (pc[r] = "done" /\ out[r] # <<>>) => outcome[r] # "empty_error"

\* C17: the stall timer is set exactly while the response is in its read
\* loop; once the call has ended (returned, cancelled, empty-response error,
\* rejected read) the timer is cleared, or was never set when the call ended
\* before streaming, so no tick of the response can run.
C17_TimerCleared ==
  \A r \in clients :
    /\ heartbeat[r] = "set" <=> pc[r] = "reading"
    /\ pc[r] = "done" =>
         heartbeat[r] = (IF outcome[r] \in {"returned", "empty_error"} \/ fed[r] # <<>>
                           THEN "cleared" ELSE heartbeat[r])
    /\ pc[r] = "done" => ~ENABLED Tick(r)

\* Witness of C17: the timer is cleared after a cancelled read rejected in the
\* middle of the stream.
C17_Witness ==
  \E r \in clients :
    /\ pc[r] = "done" /\ outcome[r] = "aborted" /\ fed[r] # <<>>
    /\ heartbeat[r] = "cleared"

\* The step reports the waiting placeholder of the stall timer in response r.
ReportsWaiting(r) ==
  /\ Len(out'[r]) = Len(out[r]) + 1
  /\ out'[r][Len(out'[r])].value = "Waiting"

C19_PlaceholdersSuppressed ==
  \A r \in clients :
    ~emitPlaceholders =>
      \A p \in 1..Len(out[r]) :
        LET e == out[r][p] IN
        e.kind = "text" =>
          /\ e.value \notin {"Thinking", "Waiting"}
          /\ e.frame \in 1..nline[r]
          /\ \E c \in 1..Len(ContentsOf(LineAt(r, e.frame))) :
               e.value = ContentsOf(LineAt(r, e.frame))[c]

\* Witness of C19: with the setting off, a reasoning frame was decoded while
\* nothing had been reported and the timer was running, and the only part
\* reported is the text of the frame after it.
C19_Witness ==
  \E r \in clients :
    /\ ~emitPlaceholders
    /\ pc[r] = "reading" /\ heartbeat[r] = "set" /\ firstByteReceived[r]
    /\ nline[r] = 2
    /\ Truthy(ReasoningOf(LineAt(r, 1)))
    /\ out[r] = <<TextPart("Hel", 2)>>

\* C20 (as claimed): the reasoning placeholder is reported only while no part
\* has been reported for the response, so it is the first part when it is
\* there (and there is at most one).
C20_ReasoningPlaceholderFirst ==
  \A r \in clients :
    \A p \in 1..Len(out[r]) : out[r][p].value = "Thinking" => p = 1

\* The stream of response r ended cleanly (the read resolved with done, no
\* Terminator seen) on an unterminated last line that is not blank.
EndedOnResidual(r) ==
  /\ Ended(r) /\ ~cancelled[r] /\ failure[r] = "none" /\ ~doneSeen[r]
  /\ closed[r]
  /\ trim(buffer[r]) # <<>>

\* C21: when the stream ends cleanly without a Terminator and the
\* unterminated remainder is not blank, the remainder is processed as one
\* final line: the parts reported, the tool-call state and the outcome are
\* those of the same stream with the line ending present (the stall timer
\* having reported nothing).
C21_ResidualFlush ==
  \A r \in clients :
    (EndedOnResidual(r) /\ ~StallReported(r)) =>
      LET R == OneChunk(fed[r] \o <<"LF">>, TRUE, emitPlaceholders) IN
      /\ popLast(split(fed[r] \o <<"LF">>)) = <<>>
      /\ out[r] = R.out
      /\ nline[r] = R.nline
      /\ toolCallBuffers = R.bufs
      /\ completedToolCallIndices = R.completed
      /\ outcome[r] = exitOutcome(R, FALSE)

\* Witness of C21: the last line of the stream is a data frame without a line
\* ending, and its text is the last part reported.
C21_Witness ==
  \E r \in clients :
    /\ EndedOnResidual(r)
    /\ buffer[r] = <<"DATA", "T2", "}">>
    /\ out[r] # <<>>
    /\ out[r][Len(out[r])].kind = "text"
    /\ out[r][Len(out[r])].frame = nline[r]
    /\ out[r][Len(out[r])].value = ContentOf(buffer[r])

\* The three ways processStreamingResponse finishes, as its caller sees them.
Completed(r) == outcome[r] = "returned" /\ ~cancelled[r] /\ out[r] # <<>>

Cancelled(r) == outcome[r] \in {"returned", "aborted"} /\ cancelled[r]

Failed(r) == outcome[r] \in {"empty_error", "transport_error"}

ExactlyOne(a, b, c) == (a /\ ~b /\ ~c) \/ (~a /\ b /\ ~c) \/ (~a /\ ~b /\ c)

\* Once response r has finished, its outcome and its parts stay as they are.
Finished(r) ==
  pc[r] = "done" => (pc'[r] = "done" /\ outcome'[r] = outcome[r] /\ out'[r] = out[r])

\* C22 (as claimed): a response that is streaming eventually finishes, in
\* exactly one of Completed (it returns, parts having been reported),
\* Cancelled (it returns silently) or Failed (it throws), and after that
\* neither the outcome nor the parts reported change.
C22_ExactlyOneOutcome ==
  /\ (pc[1] = "reading") ~>
       (pc[1] = "done" /\ ExactlyOne(Completed(1), Cancelled(1), Failed(1)))
  /\ [][Finished(1)]_vars

\* What holds of C22: a response that is streaming eventually finishes with
\* one outcome, set when it finishes and never changed, and no part is
\* reported after it.
C22_Terminates ==
  /\ (pc[1] = "reading") ~> (pc[1] = "done" /\ outcome[1] # "none")
  /\ [](pc[1] # "done" => outcome[1] = "none")
  /\ [][Finished(1)]_vars

\* The map of probed tool support of a backend.
ProbedMap(b) == IF b = "bedrock" THEN nativeToolSupport ELSE mantleToolSupport

\* C23: in the model list returned by discovery, a model with a probed
\* tool-support value is advertised with that value, whatever its name and
\* the external metadata say; without a probed value, external metadata
\* switches tool support on when it has a flag for it and otherwise leaves
\* what the listing said.
C23_ProbedOverridesAll ==
  models # <<>> =>
    \A b \in Backends :
      /\ \A v \in BOOLEAN : Recorded(ProbedMap(b), ModelId, v) => models[b] = v
      /\ ModelId \notin DOMAIN ProbedMap(b) =>
           models[b] = (listedToolCalling(b, listing[b].byName)
                          \/ (listing[b].meta.present /\ listing[b].meta.on # {}))

\* Witness of C23: the name and the external metadata of the Mantle model say
\* tools, the probe says none, and the model is advertised without tools;
\* the native model, not probed, is advertised with tools although its
\* metadata has no flag for them.
C23_Witness ==
  /\ models # <<>>
  /\ Recorded(mantleToolSupport, ModelId, FALSE)
  /\ listing["mantle"].byName /\ listing["mantle"].meta.on = ToolFlags
  /\ models["mantle"] = FALSE
  /\ nativeToolSupport = NoSupport
  /\ listing["bedrock"].meta = [present |-> TRUE, on |-> {}]
  /\ models["bedrock"] = TRUE

\* Response r ended on an answer that was not OK: the last request was
\* answered with a status, the body was read, and nothing was aborted.
EndedNotOk(r) == pc[r] = "done" /\ outcome[r] = "http_error" /\ failure[r] = "none"

\* C24 (as claimed): a response that ended on an answer that was not OK fails
\* with the error of the status of that answer (invalid API key for 401,
\* model not available for 404, rate limit for 429, the API error with the
\* status otherwise), and no part is reported.
C24_StatusErrors ==
  \A r \in clients :
    EndedNotOk(r) => (message[r] = statusError(status[r]) /\ out[r] = <<>>)

\* What holds of C24: the error is that of the status when the answer was to
\* the only request of the response, and no part is reported in any case.
C24_FirstAnswerErrors ==
  \A r \in clients :
    EndedNotOk(r) =>
      /\ out[r] = <<>>
      /\ Len(requests[r]) = 1 => message[r] = statusError(status[r])
      /\ Len(requests[r]) = 2 => message[r] = <<"API error", status[r]>>

\* In Mantle response r the tools were rejected and the retry without tools
\* was answered OK (the stream was started).
RetrySucceeded(r) == requests[r] = <<TRUE, FALSE>> /\ heartbeat[r] # "unset"

\* The value true is recorded for the model in this step.
RecordsTrue(map) == ~Recorded(map, ModelId, TRUE) /\ Recorded(map', ModelId, TRUE)

\* C25 (as claimed), on the Mantle path: once the tools were rejected and the
\* retry without tools succeeded, the tool support recorded for the model is
\* false; and the value true is recorded only by the OK answer to a request
\* that carried tools.
C25_RejectionCached ==
  /\ [](\A r \in clients :
         RetrySucceeded(r) => Recorded(mantleToolSupport, ModelId, FALSE))
  /\ [][RecordsTrue(mantleToolSupport) =>
          \E r \in clients :
            /\ pc[r] = "requesting" /\ pc'[r] = "reading"
            /\ requests[r] = <<TRUE>>]_vars

\* C25 on the native path: a response that returned after the retry without
\* tools leaves false recorded, one that returned from the first call with
\* tools leaves true recorded, and true is recorded only when a converseOnce
\* call that carried tools returns.
C25_NativeRejectionCached ==
  /\ []((nat.at = "done" /\ nat.outcome = "returned") =>
         /\ nat.call = 2 => Recorded(nativeToolSupport, ModelId, FALSE)
         /\ (nat.call = 1 /\ nat.toolsToSend) =>
              Recorded(nativeToolSupport, ModelId, TRUE))
  /\ [][RecordsTrue(nativeToolSupport) =>
          /\ nat.call = 1 /\ nat.toolsToSend
          /\ nat'.outcome = "returned"
          /\ \A i \in 1..Len(nat.sent) : nat.sent[i].tools]_vars

\* C26: for one Mantle response at most two chat-completions requests are
\* sent; the second only when the first carried tools and was answered not OK
\* with a body that looks tool-related; it carries no tools; and when it is
\* answered not OK as well the call fails, no third request being sent.
C26_AtMostOneRetry ==
  \A r \in clients :
    /\ Len(requests[r]) <= 2
    /\ Len(requests[r]) = 2 =>
         /\ requests[r][1] /\ ~requests[r][2]
         /\ status[r] # 0
         /\ errorText[r] # <<>> /\ errorText[r][1]
    /\ Len(errorText[r]) = 2 =>
         /\ Len(requests[r]) = 2
         /\ pc[r] = "done" /\ outcome[r] = "http_error"
         /\ message[r] = retryError(status[r])

\* Witness of C26: the tools were rejected, the retry without tools was
\* answered not OK, and the call failed after two requests.
C26_Witness ==
  \E r \in clients :
    /\ requests[r] = <<TRUE, FALSE>>
    /\ Len(errorText[r]) = 2
    /\ pc[r] = "done" /\ outcome[r] = "http_error"

\* C27: on the native path converseOnce is called again at most once, and
\* only when tools were sent and the error of the first call looks
\* tool-related; the requests of the retry carry no tools; an error that is
\* thrown to the caller is the one converseOnce threw (from the first call
\* only when it was not to be retried); and the recorded tool support
\* changes only when a response returns or a tool-related error is retried.
C27_NativeRetryOnce ==
  /\ [](/\ nat.call <= 2
        /\ nat.call = 2 =>
             (nat.toolsToSend /\ nat.caught.call = 1 /\ nat.caught.tool)
        /\ \A i \in 1..Len(nat.sent) :
             nat.sent[i].tools = (nat.sent[i].call = 1 /\ nat.toolsToSend)
        /\ nat.outcome = "thrown" =>
             /\ nat.thrown.call = nat.call
             /\ nat.call = 1 => ~(nat.toolsToSend /\ nat.thrown.tool))
  /\ [][nativeToolSupport' # nativeToolSupport =>
          \/ nat'.outcome = "returned"
          \/ nat.call = 1 /\ nat'.call = 2 /\ nat'.caught.tool]_vars

\* Witness of C27: the first call failed with a tool-related error, the
\* rejection was recorded, and the retry failed with an error that also looks
\* tool-related, which was thrown to the caller.
C27_Witness ==
  /\ nat.at = "done" /\ nat.outcome = "thrown"
  /\ nat.call = 2 /\ nat.caught.tool
  /\ nat.thrown.call = 2 /\ nat.thrown.tool
  /\ Recorded(nativeToolSupport, ModelId, FALSE)

\* The Converse requests of the converseOnce call that is under way or ended
\* last, and the error that call threw (NoError when it threw none).
RequestsOfCall == SelectSeq(nat.sent, LAMBDA q : q.call = nat.call)

ThrownByCall ==
  IF nat.outcome = "thrown" /\ nat.thrown.call = nat.call THEN nat.thrown ELSE NoError

\* The requests of a converseOnce call: at most three; the first with the
\* model id; a second only after the first failed with an error that says an
\* inference profile is required, with the identifier resolved; a third only
\* after the second, sent with a cached identifier, failed, with the
\* identifier of the forced refresh.
ThreeRequests ==
  LET Q == RequestsOfCall IN
  /\ Len(Q) <= 3
  /\ Len(Q) >= 1 => Q[1].id = "modelId"
  /\ Len(Q) >= 2 => (nat.err.n = 1 /\ nat.err.profile /\ Q[2].id \in {"cached", "lookup"})
  /\ Len(Q) = 3 => (Q[2].id = "cached" /\ nat.retryErr.n = 2 /\ Q[3].id = "refreshed")

\* C28 (as claimed): converseOnce sends at most three Converse requests, as
\* above, and when it throws without having sent a further request the error
\* is that of the last request: the original error when no second request
\* was sent, the second error when no third was sent.
C28_AtMostThreeConverse ==
  /\ ThreeRequests
  /\ \A k \in 1..2 :
       (ThrownByCall # NoError /\ Len(RequestsOfCall) = k) => ThrownByCall.n = k

\* What holds of C28: the requests are as claimed, and the error thrown is
\* that of the last request unless the listing of the inference profiles
\* itself was rejected (n = 0), whose error is thrown instead.
C28_RequestsAsClaimed ==
  /\ ThreeRequests
  /\ ThrownByCall # NoError => ThrownByCall.n \in {0, Len(RequestsOfCall)}

\* The number of values recorded for the model that this step changes (from
\* unset or from the opposite value).
Changes(map) == IF map' # map THEN 1 ELSE 0

EventsMatchChanges ==
  fired' = fired + Changes(mantleToolSupport) + Changes(nativeToolSupport)

C29_NativeWitness ==
  /\ nat.count = 2 /\ nat.call = 1 /\ nat.toolsToSend /\ nat.outcome = "returned"
  /\ Recorded(nativeToolSupport, ModelId, TRUE)
  /\ fired = 1

\* C30: when the responses of a provider are processed one after the other,
\* the tool-call buffers, the completed set and the flag are empty/false when
\* the streaming of a response starts, and every response reports exactly the
\* tool calls of its own stream decoded alone: what an earlier response
\* completed or left unfinished neither suppresses nor feeds a later one.
C30_FreshStreamState ==
  \A r \in clients :
    /\ (pc[r] = "reading" /\ fed[r] = <<>>) =>
         /\ toolCallBuffers = NoBufs /\ bufferKeys = <<>>
         /\ completedToolCallIndices = {}
         /\ ~reportedAnyPart
    /\ (pc[r] \in {"reading", "done"} /\ ~cancelled[r] /\ failure[r] = "none") =>
         ToolView(out[r]) = ToolView(OneChunk(fed[r], Ended(r), emitPlaceholders).out)
    /\ (pc[r] = "reading" /\ ~cancelled[r]) =>
         LET R == OneChunk(fed[r], FALSE, emitPlaceholders) IN
         /\ toolCallBuffers = R.bufs
         /\ completedToolCallIndices = R.completed

\* Witness of C30: the first response completed a tool call at index 0, and
\* the second one, processed after it, reported the tool call its own stream
\* carries at index 0.
C30_Witness ==
  /\ pc[1] = "done" /\ Ended(1)
  /\ ToolView(out[1]) # <<>> /\ ToolView(out[1])[1][1] = 0
  /\ pc[2] = "done" /\ Ended(2) /\ ~cancelled[2]
  /\ sent[2] = 2
  /\ ToolView(out[2]) # <<>> /\ ToolView(out[2])[1][1] = 0

\* C31: the retry of the open tool-call buffers at the Terminator never emits
\* anything.  Whatever a response has read, every buffer that is open failed
\* its last attempt to finalize and is unchanged since: running the retry in
\* that state leaves the parts, the buffers and the completed set as they
\* are, so the tool calls emitted for a stream are the same with or without
\* the retry.  (A chunk may end after any line, so the states the retry runs
\* in are among these.)
C31_RetryEmitsNothing ==
  \A r \in clients :
    LET D == DecoderOf(r) IN retryBuffers(D, D.keys) = D

\* Witness of C31: the Terminator was classified while a buffer was open (the
\* retry had a buffer to try), after the stream had emitted a tool call.
C31_Witness ==
  /\ doneSeen[1] /\ pc[1] = "done"
  /\ bufferKeys # <<>>
  /\ ToolView(out[1]) # <<>>

\* The indices with an open buffer; the parts a step adds for response r.
OpenIndices == {i \in Idx : toolCallBuffers[i].has}

NewParts(r) == SubSeq(out'[r], Len(out[r]) + 1, Len(out'[r]))

\* C32: in every reachable state of a single response the indices with an
\* open tool-call buffer and the completed indices are disjoint (and the open
\* indices are exactly the keys of the Map); an index enters the completed set
\* only in a step that emits its tool call; and no index leaves the completed
\* set once the response is being read.
C32_BufferLifecycle ==
  /\ [](/\ OpenIndices \cap completedToolCallIndices = {}
        /\ OpenIndices = {bufferKeys[k] : k \in DOMAIN bufferKeys})
  /\ [][\A r \in clients :
          /\ \A i \in completedToolCallIndices' \ completedToolCallIndices :
               \E k \in DOMAIN NewParts(r) :
                 NewParts(r)[k].kind = "tool" /\ NewParts(r)[k].index = i
          /\ pc[r] \in {"reading", "done"} =>
               completedToolCallIndices \subseteq completedToolCallIndices']_vars

\* Witness of C32: one index is completed, its tool call is among the parts,
\* and another index has an open buffer.
C32_Witness ==
  /\ pc[1] = "reading"
  /\ completedToolCallIndices = {1}
  /\ OpenIndices = {0}
  /\ \E k \in DOMAIN out[1] : out[1][k].kind = "tool" /\ out[1][k].index = 1

\* A line that is not a data frame with a non-empty payload: blank, a comment,
\* metadata or any other line without the data prefix, or a data line whose
\* payload is empty.
IsInertLine(line) ==
  LET t == trim(line) IN
  \/ t = <<>>
  \/ t[1] = ":"
  \/ t[1] # "DATA"
  \/ trimStart(Tail(t)) = <<>>

\* The lines a step of response r gives to processLine: the complete lines of
\* the buffer extended by the chunk read, and the residual line when the loop
\* is left with one.
LinesOfStep(r) ==
  LET chunk == SubSeq(fed'[r], Len(fed[r]) + 1, Len(fed'[r]))
      lines == split(buffer[r] \o chunk)
  IN allButLast(lines) \o
       (IF pc'[r] = "done" /\ trim(popLast(lines)) # <<>>
          THEN <<popLast(lines)>> ELSE <<>>)

\* C33: a step that gives processLine only lines that are not data frames
\* with a non-empty payload reports no part and leaves the tool-call buffers,
\* the completed set, the flags _reportedAnyPartInCurrentResponse and
\* emittedAny, and doneSeen as they were.
C33_InertLines ==
  [][\A r \in clients :
       (/\ pc[r] = "reading"
        /\ nline'[r] # nline[r]
        /\ LET L == LinesOfStep(r) IN \A k \in DOMAIN L : IsInertLine(L[k]))
       => /\ out'[r] = out[r]
          /\ toolCallBuffers' = toolCallBuffers /\ bufferKeys' = bufferKeys
          /\ completedToolCallIndices' = completedToolCallIndices
          /\ reportedAnyPart' = reportedAnyPart
          /\ emittedAny'[r] = emittedAny[r]
          /\ doneSeen'[r] = doneSeen[r]]_vars

\* Witness of C33: a fragment opened a tool-call buffer, then a metadata line
\* and a data line with an empty payload were read, and the buffer is as the
\* fragment left it.
C33_Witness ==
  /\ pc[1] = "reading" /\ nline[1] = 3
  /\ fed[1] = DataLine("A1") \o <<"EVT", "CR", "LF">> \o <<"SP", "DATA", "SP", "LF">>
  /\ OpenIndices = {0} /\ toolCallBuffers[0].args = <<"{", "ka">>
  /\ out[1] = <<>> /\ ~doneSeen[1]

\* x >= 1 (false of NaN).
AtLeastOne(x) == ~IsNaN(x) /\ ~Gt(Tokens(1), x)

\* floor(maxInputTokens) is a positive number.
ExplicitMaxInput(model) ==
  typeofNumber(model.maxInputTokens) /\ Gt(MathFloor(model.maxInputTokens), Fin(0))

\* The limits of a model are coherent, as C34 has it.
Coherent(model, info) ==
  /\ AtLeastOne(info.maxInputTokens)
  /\ AtLeastOne(info.maxOutputTokens)
  /\ ~ExplicitMaxInput(model) =>
       LET context == MathMax(Tokens(2), MathFloor(OrZero(model.contextLength))) IN
       /\ ~Gt(info.maxOutputTokens, Minus(context, Tokens(1)))
       /\ ~IsNaN(info.maxOutputTokens)
       /\ Plus(info.maxInputTokens, info.maxOutputTokens) = context

\* C34: the token limits advertised for a model are coherent for every input:
\* maxInputTokens >= 1 and maxOutputTokens >= 1 always, and when no explicit
\* positive maxInputTokens is known, maxOutputTokens <= context - 1 and
\* maxInputTokens + maxOutputTokens = context, where
\* context = max(2, floor(contextLength)).
C34_CoherentLimits ==
  information # NoInformation => Coherent(parsedModel, information)

\* What holds of C34: the limits are coherent whenever contextLength and
\* maxOutputTokens are not both infinite.  They are both infinite and the
\* fallback is taken when the registry has a max_input_tokens between 0 and 1
\* and a max_output_tokens beyond the range of a double: Infinity - Infinity
\* is NaN, and Math.max(1, NaN) is NaN.
C34_FiniteLimitsCoherent ==
  (/\ information # NoInformation
   /\ ~(parsedModel.contextLength = Infinity /\ parsedModel.maxOutputTokens = Infinity))
  => Coherent(parsedModel, information)

\* The result at position k answers no call: no tool-call part before it
\* carries its call id without a result for that id in between.
Offending(parts, k) ==
  /\ parts[k].kind = "result"
  /\ ~\E j \in 1..(k - 1) :
        /\ parts[j] = CallOf(parts[k].callId)
        /\ \A i \in (j + 1)..(k - 1) : parts[i] # ResultOf(parts[k].callId)

\* The call ids that remain unanswered at the end.
Unanswered(parts) ==
  {id \in CallIds :
     \E j \in DOMAIN parts :
       /\ parts[j] = CallOf(id)
       /\ \A k \in (j + 1)..Len(parts) : parts[k] # ResultOf(id)}

Accepted(parts) ==
  /\ \A k \in DOMAIN parts : ~Offending(parts, k)
  /\ Unanswered(parts) = {}

\* The error of a sequence that is not accepted.
ExpectedError(parts) ==
  IF \E k \in DOMAIN parts : Offending(parts, k)
    THEN LET first == CHOOSE k \in DOMAIN parts :
                        /\ Offending(parts, k)
                        /\ \A j \in 1..(k - 1) : ~Offending(parts, j)
         IN [kind |-> "Tool result for unknown call ID", ids |-> {parts[first].callId}]
    ELSE [kind |-> "Missing tool results for calls", ids |-> Unanswered(parts)]

\* The error a response was refused with, as kind and call ids.
InvalidRequestError(r) ==
  [kind |-> message[r][2],
   ids  |-> {message[r][k] : k \in 3..Len(message[r])}]

\* C35: a request is past validateRequest exactly when, scanning all parts in
\* order, every tool-result part carries the call id of a tool-call part seen
\* earlier and not yet answered and no call id remains unanswered at the end.
\* Otherwise the Mantle path fails with the invalid-request error (unknown
\* call id, of the first offending result; or missing results, of the pending
\* ids), no HTTP request has been sent and nothing is reported.
C35_ValidateRequest ==
  \A r \in clients :
    pc[r] # "idle" =>
      LET parts == chatMessages[r] IN
      /\ (Accepted(parts) /\ parts # <<>>) =>
           /\ requests[r] # <<>>
           /\ (message[r] # <<>> => message[r][1] # "Invalid request")
      /\ ~Accepted(parts) =>
           /\ pc[r] = "done" /\ outcome[r] = "request_error"
           /\ message[r][1] = "Invalid request"
           /\ InvalidRequestError(r) = ExpectedError(parts)
           /\ requests[r] = <<>> /\ out[r] = <<>> /\ heartbeat[r] = "unset"

\* Witnesses of C35: a request whose two calls carry the same id, answered by
\* one result, is sent; one whose second result finds its call id already
\* answered is refused.
C35_Witness ==
  /\ chatMessages[1] = <<CallOf("c1"), CallOf("c1"), ResultOf("c1"), TextOf>>
  /\ pc[1] = "done" /\ outcome[1] = "returned" /\ requests[1] # <<>>

C35_RefusedWitness ==
  /\ chatMessages[1] = <<CallOf("c1"), ResultOf("c1"), ResultOf("c1"), CallOf("c2")>>
  /\ pc[1] = "done" /\ message[1] = <<"Invalid request", "Tool result for unknown call ID", "c1">>

\* The persisted cache a call started with is usable: it was fetched from the
\* same URL and is not older than cacheHours, with cacheHours > 0.
UsableCache(L) ==
  /\ L.before.present
  /\ L.before.url = trim(L.url)
  /\ L.cacheHours > 0
  /\ L.began - L.before.fetchedAt <= 2 * L.cacheHours

\* The entries of the usable cache: none if the cache is absent, stale, or
\* for a different URL.
UsableEntries(L) == IF UsableCache(L) THEN L.before.byModelId ELSE NoEntries

MergedEntries(L) ==
  LET old == UsableEntries(L)
      found == L.modelIds \cap DOMAIN L.document
  IN [id \in DOMAIN old \cup found |->
        IF id \in found THEN L.document[id] ELSE old[id]]

\* C37: a call makes no fetch and no cache write exactly when the persisted
\* cache was fetched from the same URL, is not older than cacheHours (with
\* cacheHours > 0) and has an entry for every id asked for; in every other
\* case it fetches; and a successful fetch stores the usable entries merged
\* with the newly found ones, under the URL and the time of the write.
C37_CacheOrFetch ==
  /\ [](load.at # "idle" =>
          /\ (load.fetches = 0 /\ load.writes = 0)
               <=> (UsableCache(load) /\ load.modelIds \subseteq DOMAIN UsableEntries(load))
          /\ load.fetches = 0 => (load.at = "returned" /\ memento = load.before)
          /\ load.fetches # 0 => load.fetches = 1
          /\ load.ended = "fetched" =>
               /\ memento.present
               /\ memento.url = trim(load.url)
               /\ memento.byModelId = MergedEntries(load)
               /\ load.returned = MergedEntries(load))
  /\ [][(load'.ended = "fetched" /\ load.at = "fetching") =>
          memento'.fetchedAt = clock]_vars

\* Witness of C37: a second call found the cache of the first exactly as old
\* as cacheHours allows, with entries for both ids asked for, and returned
\* them without a fetch.
C37_Witness ==
  /\ load.calls = 2 /\ load.at = "returned" /\ load.ended = "cache"
  /\ load.fetches = 0
  /\ load.began - load.before.fetchedAt = 2 * load.cacheHours
  /\ load.modelIds = MetaIds
  /\ load.url # load.before.url

\* ... and a call that found a usable cache without one of the ids fetched,
\* and the cache now holds the old entry and the new one.
C37_MergeWitness ==
  /\ load.ended = "fetched" /\ UsableCache(load)
  /\ DOMAIN load.before.byModelId = {"a"}
  /\ load.modelIds = {"b"}
  /\ DOMAIN memento.byModelId = MetaIds

====
